---- MODULE Spec2Model ----
(***************************************************************************)
(* Model of the VTT transcript pipeline of skills-akaihola:                *)
(*   vtt2md/scripts/vtt2md.py          parse_vtt, words_to_sentences,      *)
(*                                     format_markdown, main               *)
(*   vtt2md/scripts/apply_structure.py apply_structure, main               *)
(*                                                                         *)
(* Representation.  A Python str is a sequence of one-character strings,   *)
(* so that joins, prefixes and regular expressions are computed character  *)
(* by character.  A time is an integer number of milliseconds (the VTT     *)
(* timestamps HH:MM:SS.mmm have millisecond resolution); the inputs use    *)
(* multiples of 500 ms, which binary floating point represents exactly.    *)
(* Python's None is the empty tuple <<>>, a present float t is <<t>>.      *)
(***************************************************************************)
EXTENDS Integers, Sequences, FiniteSets, TLC

VARIABLES
    pc,               \* position in the script being run
    cues,             \* webvtt.read(path): the captions of the VTT file
    words,            \* list[tuple[float, str]]
    pause_threshold,  \* args.pause, a float
    timestamps,       \* not args.no_timestamps
    sentences,        \* list[tuple[float | None, str]]
    chapters,         \* info.get("chapters")
    md,               \* the Markdown text format_markdown returns
    lines,            \* apply_structure's input lines
    hints,            \* the hints JSON object
    out,              \* the text apply_structure returns
    video_id,         \* args.video_id
    in_place,         \* input_path.resolve() == output_path.resolve()
    download,         \* vtt2md.py: what ydl.download leaves in tmpdir
    description,      \* info.get("description", "")
    main_fails,       \* vtt2md.py, enrich_links.py: the step of main that raises
    output_arg,       \* enrich_links.py: whether -o is given
    transcript_file,  \* the file vtt2md.py writes and apply_structure.py reads
    final_file,       \* the file apply_structure.py writes, when another file
    apply_fails,      \* apply_structure.py: the step of main that raises
    links_file,       \* enrich_links.py: the list read from --links
    git_log,          \* git_context_chunks.py: what git log -n5 prints
    raw_diff,         \* what git diff --cached prints
    git_fails,        \* whether the git commands exit with an error
    limit,            \* args.limit
    chunk_index,      \* args.chunk_index
    chunks,           \* the list build_chunks returned to the last run
    next_cmd,         \* the next-chunk command printed by the last run
    execute,          \* email-delete.py: --execute
    verbose,          \* --verbose
    tty,              \* sys.stdin.isatty()
    read_stdout,      \* what himalaya message read prints
    answer,           \* what the user types at typer.confirm
    delete_returncode,\* the exit status of himalaya envelope delete
    events,           \* the himalaya commands, prints and prompts, in order
    options,          \* email_save.py: SaveOptions
    message_attachments, \* the names of the attachments of the message
    himalaya_fails,   \* the himalaya command that exits with an error
    confirm_answer,   \* what Confirm.ask("Overwrite?") returns
    fs_dirs,          \* the directories that exist
    fs_files,         \* the files that exist, each with its content
    output_path,      \* what _determine_output_path returned
    download_dir,     \* the directory given to the download step
    mcp_config,       \* convert_mcp_to_skill.py: the MCP configuration
    skill_dir,        \* the names in output_dir, None when it does not exist
    converter_ok,     \* whether the converter script exits with status 0
    templates_exist,  \* whether the template files can be read
    raised,           \* the exception that generate let through
    split_seg,        \* fine_grain_segments: the segment of the for loop
    split_start,      \* start, the offset of the while loop
    split_fine,       \* fine, the pieces appended so far
    stdout,           \* what the scripts print, in order
    stderr,           \* what the scripts print to sys.stderr, in order
    exit_code         \* the exit status of the script that ran last

mainVars == <<video_id, in_place, download, description, main_fails,
              output_arg, transcript_file, final_file>>

vars == <<pc, cues, words, pause_threshold, timestamps, sentences, chapters,
          md, lines, hints, out, video_id, in_place, download, description,
          main_fails, output_arg, transcript_file, final_file, apply_fails, links_file, git_log, raw_diff, git_fails, limit,
          chunk_index, chunks, next_cmd, execute, verbose, tty,
          read_stdout, answer, delete_returncode, events, options,
          message_attachments, himalaya_fails, confirm_answer, fs_dirs,
          fs_files, output_path, download_dir, mcp_config, skill_dir,
          converter_ok, templates_exist, raised, split_seg, split_start,
          split_fine, stdout, stderr, exit_code>>

ioVars == <<stdout, stderr, exit_code>>

\* the variables of the other scripts
chunkVars == <<git_log, raw_diff, git_fails, limit, chunk_index, chunks,
               next_cmd>>

mailVars == <<execute, verbose, tty, read_stdout, answer, delete_returncode,
              events>>

saveVars == <<options, message_attachments, himalaya_fails, confirm_answer,
              fs_dirs, fs_files, output_path, download_dir>>

skillVars == <<mcp_config, skill_dir, converter_ok, templates_exist, raised>>

splitVars == <<split_seg, split_start, split_fine>>

toolVars == <<apply_fails, links_file, chunkVars, mailVars, saveVars,
              skillVars, splitVars>>

extVars == <<toolVars, ioVars>>

(***************************************************************************)
(* Bounds of the model                                                     *)
(***************************************************************************)
MaxCues == 3
MaxWords == 3
MaxUnits == 4
MaxChapters == 2
MaxLines == 3
MaxMixedLines == 3
MaxDocLines == 2
MaxEntries == 2
MaxTsLines == 3
MaxFiles == 2
MaxSmallLimit == 2
MaxSegLen == 3
MaxInputLines == 2
MaxPieces == 5

(***************************************************************************)
(* Strings                                                                 *)
(***************************************************************************)
None == <<>>
Some(x) == <<x>>

\* A character is a one-character string; a character that cannot be
\* written in the module is named by its code point, "U+00A0".
NL == "\n"

\* The characters str.isspace() holds for: what strip(), lstrip() and
\* rstrip() remove and what \s matches in a str pattern.
Whitespace ==
    {"\t", "\n", "U+000B", "\f", "\r", "U+001C", "U+001D", "U+001E",
     "U+001F", " ", "U+0085", "U+00A0", "U+1680", "U+2000", "U+2001",
     "U+2002", "U+2003", "U+2004", "U+2005", "U+2006", "U+2007", "U+2008",
     "U+2009", "U+200A", "U+2028", "U+2029", "U+202F", "U+205F", "U+3000"}

\* The line boundaries of str.splitlines(); "\r\n" counts as one.
LineBoundaries ==
    {"\n", "U+000B", "\f", "\r", "U+001C", "U+001D", "U+001E", "U+0085",
     "U+2028", "U+2029"}

Last(s) == s[Len(s)]
Front(s) == SubSeq(s, 1, Len(s) - 1)

RECURSIVE lstrip(_)
lstrip(s) ==
    IF s # <<>> /\ Head(s) \in Whitespace THEN lstrip(Tail(s)) ELSE s

RECURSIVE rstrip(_)
rstrip(s) ==
    IF s # <<>> /\ Last(s) \in Whitespace THEN rstrip(Front(s)) ELSE s

strip(s) == lstrip(rstrip(s))

\* sep.join(parts)
RECURSIVE join(_, _)
join(sep, parts) ==
    IF parts = <<>> THEN <<>>
    ELSE IF Len(parts) = 1 THEN parts[1]
    ELSE parts[1] \o sep \o join(sep, Tail(parts))

StartsWith(s, p) == Len(s) >= Len(p) /\ SubSeq(s, 1, Len(p)) = p

\* The decimal digits of Unicode (category Nd), which \d matches in a str
\* pattern and int() and float() read: the digits of every script, ten by
\* ten in the order 0..9, the ASCII digits first.
DigitChars ==
    <<"0", "1", "2", "3", "4", "5", "6", "7", "8", "9", "U+0660", "U+0661",
      "U+0662", "U+0663", "U+0664", "U+0665", "U+0666", "U+0667", "U+0668",
      "U+0669", "U+06F0", "U+06F1", "U+06F2", "U+06F3", "U+06F4", "U+06F5",
      "U+06F6", "U+06F7", "U+06F8", "U+06F9", "U+07C0", "U+07C1", "U+07C2",
      "U+07C3", "U+07C4", "U+07C5", "U+07C6", "U+07C7", "U+07C8", "U+07C9",
      "U+0966", "U+0967", "U+0968", "U+0969", "U+096A", "U+096B", "U+096C",
      "U+096D", "U+096E", "U+096F", "U+09E6", "U+09E7", "U+09E8", "U+09E9",
      "U+09EA", "U+09EB", "U+09EC", "U+09ED", "U+09EE", "U+09EF", "U+0A66",
      "U+0A67", "U+0A68", "U+0A69", "U+0A6A", "U+0A6B", "U+0A6C", "U+0A6D",
      "U+0A6E", "U+0A6F", "U+0AE6", "U+0AE7", "U+0AE8", "U+0AE9", "U+0AEA",
      "U+0AEB", "U+0AEC", "U+0AED", "U+0AEE", "U+0AEF", "U+0B66", "U+0B67",
      "U+0B68", "U+0B69", "U+0B6A", "U+0B6B", "U+0B6C", "U+0B6D", "U+0B6E",
      "U+0B6F", "U+0BE6", "U+0BE7", "U+0BE8", "U+0BE9", "U+0BEA", "U+0BEB",
      "U+0BEC", "U+0BED", "U+0BEE", "U+0BEF", "U+0C66", "U+0C67", "U+0C68",
      "U+0C69", "U+0C6A", "U+0C6B", "U+0C6C", "U+0C6D", "U+0C6E", "U+0C6F",
      "U+0CE6", "U+0CE7", "U+0CE8", "U+0CE9", "U+0CEA", "U+0CEB", "U+0CEC",
      "U+0CED", "U+0CEE", "U+0CEF", "U+0D66", "U+0D67", "U+0D68", "U+0D69",
      "U+0D6A", "U+0D6B", "U+0D6C", "U+0D6D", "U+0D6E", "U+0D6F", "U+0DE6",
      "U+0DE7", "U+0DE8", "U+0DE9", "U+0DEA", "U+0DEB", "U+0DEC", "U+0DED",
      "U+0DEE", "U+0DEF", "U+0E50", "U+0E51", "U+0E52", "U+0E53", "U+0E54",
      "U+0E55", "U+0E56", "U+0E57", "U+0E58", "U+0E59", "U+0ED0", "U+0ED1",
      "U+0ED2", "U+0ED3", "U+0ED4", "U+0ED5", "U+0ED6", "U+0ED7", "U+0ED8",
      "U+0ED9", "U+0F20", "U+0F21", "U+0F22", "U+0F23", "U+0F24", "U+0F25",
      "U+0F26", "U+0F27", "U+0F28", "U+0F29", "U+1040", "U+1041", "U+1042",
      "U+1043", "U+1044", "U+1045", "U+1046", "U+1047", "U+1048", "U+1049",
      "U+1090", "U+1091", "U+1092", "U+1093", "U+1094", "U+1095", "U+1096",
      "U+1097", "U+1098", "U+1099", "U+17E0", "U+17E1", "U+17E2", "U+17E3",
      "U+17E4", "U+17E5", "U+17E6", "U+17E7", "U+17E8", "U+17E9", "U+1810",
      "U+1811", "U+1812", "U+1813", "U+1814", "U+1815", "U+1816", "U+1817",
      "U+1818", "U+1819", "U+1946", "U+1947", "U+1948", "U+1949", "U+194A",
      "U+194B", "U+194C", "U+194D", "U+194E", "U+194F", "U+19D0", "U+19D1",
      "U+19D2", "U+19D3", "U+19D4", "U+19D5", "U+19D6", "U+19D7", "U+19D8",
      "U+19D9", "U+1A80", "U+1A81", "U+1A82", "U+1A83", "U+1A84", "U+1A85",
      "U+1A86", "U+1A87", "U+1A88", "U+1A89", "U+1A90", "U+1A91", "U+1A92",
      "U+1A93", "U+1A94", "U+1A95", "U+1A96", "U+1A97", "U+1A98", "U+1A99",
      "U+1B50", "U+1B51", "U+1B52", "U+1B53", "U+1B54", "U+1B55", "U+1B56",
      "U+1B57", "U+1B58", "U+1B59", "U+1BB0", "U+1BB1", "U+1BB2", "U+1BB3",
      "U+1BB4", "U+1BB5", "U+1BB6", "U+1BB7", "U+1BB8", "U+1BB9", "U+1C40",
      "U+1C41", "U+1C42", "U+1C43", "U+1C44", "U+1C45", "U+1C46", "U+1C47",
      "U+1C48", "U+1C49", "U+1C50", "U+1C51", "U+1C52", "U+1C53", "U+1C54",
      "U+1C55", "U+1C56", "U+1C57", "U+1C58", "U+1C59", "U+A620", "U+A621",
      "U+A622", "U+A623", "U+A624", "U+A625", "U+A626", "U+A627", "U+A628",
      "U+A629", "U+A8D0", "U+A8D1", "U+A8D2", "U+A8D3", "U+A8D4", "U+A8D5",
      "U+A8D6", "U+A8D7", "U+A8D8", "U+A8D9", "U+A900", "U+A901", "U+A902",
      "U+A903", "U+A904", "U+A905", "U+A906", "U+A907", "U+A908", "U+A909",
      "U+A9D0", "U+A9D1", "U+A9D2", "U+A9D3", "U+A9D4", "U+A9D5", "U+A9D6",
      "U+A9D7", "U+A9D8", "U+A9D9", "U+A9F0", "U+A9F1", "U+A9F2", "U+A9F3",
      "U+A9F4", "U+A9F5", "U+A9F6", "U+A9F7", "U+A9F8", "U+A9F9", "U+AA50",
      "U+AA51", "U+AA52", "U+AA53", "U+AA54", "U+AA55", "U+AA56", "U+AA57",
      "U+AA58", "U+AA59", "U+ABF0", "U+ABF1", "U+ABF2", "U+ABF3", "U+ABF4",
      "U+ABF5", "U+ABF6", "U+ABF7", "U+ABF8", "U+ABF9", "U+FF10", "U+FF11",
      "U+FF12", "U+FF13", "U+FF14", "U+FF15", "U+FF16", "U+FF17", "U+FF18",
      "U+FF19", "U+104A0", "U+104A1", "U+104A2", "U+104A3", "U+104A4",
      "U+104A5", "U+104A6", "U+104A7", "U+104A8", "U+104A9", "U+10D30",
      "U+10D31", "U+10D32", "U+10D33", "U+10D34", "U+10D35", "U+10D36",
      "U+10D37", "U+10D38", "U+10D39", "U+11066", "U+11067", "U+11068",
      "U+11069", "U+1106A", "U+1106B", "U+1106C", "U+1106D", "U+1106E",
      "U+1106F", "U+110F0", "U+110F1", "U+110F2", "U+110F3", "U+110F4",
      "U+110F5", "U+110F6", "U+110F7", "U+110F8", "U+110F9", "U+11136",
      "U+11137", "U+11138", "U+11139", "U+1113A", "U+1113B", "U+1113C",
      "U+1113D", "U+1113E", "U+1113F", "U+111D0", "U+111D1", "U+111D2",
      "U+111D3", "U+111D4", "U+111D5", "U+111D6", "U+111D7", "U+111D8",
      "U+111D9", "U+112F0", "U+112F1", "U+112F2", "U+112F3", "U+112F4",
      "U+112F5", "U+112F6", "U+112F7", "U+112F8", "U+112F9", "U+11450",
      "U+11451", "U+11452", "U+11453", "U+11454", "U+11455", "U+11456",
      "U+11457", "U+11458", "U+11459", "U+114D0", "U+114D1", "U+114D2",
      "U+114D3", "U+114D4", "U+114D5", "U+114D6", "U+114D7", "U+114D8",
      "U+114D9", "U+11650", "U+11651", "U+11652", "U+11653", "U+11654",
      "U+11655", "U+11656", "U+11657", "U+11658", "U+11659", "U+116C0",
      "U+116C1", "U+116C2", "U+116C3", "U+116C4", "U+116C5", "U+116C6",
      "U+116C7", "U+116C8", "U+116C9", "U+11730", "U+11731", "U+11732",
      "U+11733", "U+11734", "U+11735", "U+11736", "U+11737", "U+11738",
      "U+11739", "U+118E0", "U+118E1", "U+118E2", "U+118E3", "U+118E4",
      "U+118E5", "U+118E6", "U+118E7", "U+118E8", "U+118E9", "U+11950",
      "U+11951", "U+11952", "U+11953", "U+11954", "U+11955", "U+11956",
      "U+11957", "U+11958", "U+11959", "U+11C50", "U+11C51", "U+11C52",
      "U+11C53", "U+11C54", "U+11C55", "U+11C56", "U+11C57", "U+11C58",
      "U+11C59", "U+11D50", "U+11D51", "U+11D52", "U+11D53", "U+11D54",
      "U+11D55", "U+11D56", "U+11D57", "U+11D58", "U+11D59", "U+11DA0",
      "U+11DA1", "U+11DA2", "U+11DA3", "U+11DA4", "U+11DA5", "U+11DA6",
      "U+11DA7", "U+11DA8", "U+11DA9", "U+16A60", "U+16A61", "U+16A62",
      "U+16A63", "U+16A64", "U+16A65", "U+16A66", "U+16A67", "U+16A68",
      "U+16A69", "U+16AC0", "U+16AC1", "U+16AC2", "U+16AC3", "U+16AC4",
      "U+16AC5", "U+16AC6", "U+16AC7", "U+16AC8", "U+16AC9", "U+16B50",
      "U+16B51", "U+16B52", "U+16B53", "U+16B54", "U+16B55", "U+16B56",
      "U+16B57", "U+16B58", "U+16B59", "U+1D7CE", "U+1D7CF", "U+1D7D0",
      "U+1D7D1", "U+1D7D2", "U+1D7D3", "U+1D7D4", "U+1D7D5", "U+1D7D6",
      "U+1D7D7", "U+1D7D8", "U+1D7D9", "U+1D7DA", "U+1D7DB", "U+1D7DC",
      "U+1D7DD", "U+1D7DE", "U+1D7DF", "U+1D7E0", "U+1D7E1", "U+1D7E2",
      "U+1D7E3", "U+1D7E4", "U+1D7E5", "U+1D7E6", "U+1D7E7", "U+1D7E8",
      "U+1D7E9", "U+1D7EA", "U+1D7EB", "U+1D7EC", "U+1D7ED", "U+1D7EE",
      "U+1D7EF", "U+1D7F0", "U+1D7F1", "U+1D7F2", "U+1D7F3", "U+1D7F4",
      "U+1D7F5", "U+1D7F6", "U+1D7F7", "U+1D7F8", "U+1D7F9", "U+1D7FA",
      "U+1D7FB", "U+1D7FC", "U+1D7FD", "U+1D7FE", "U+1D7FF", "U+1E140",
      "U+1E141", "U+1E142", "U+1E143", "U+1E144", "U+1E145", "U+1E146",
      "U+1E147", "U+1E148", "U+1E149", "U+1E2F0", "U+1E2F1", "U+1E2F2",
      "U+1E2F3", "U+1E2F4", "U+1E2F5", "U+1E2F6", "U+1E2F7", "U+1E2F8",
      "U+1E2F9", "U+1E950", "U+1E951", "U+1E952", "U+1E953", "U+1E954",
      "U+1E955", "U+1E956", "U+1E957", "U+1E958", "U+1E959", "U+1FBF0",
      "U+1FBF1", "U+1FBF2", "U+1FBF3", "U+1FBF4", "U+1FBF5", "U+1FBF6",
      "U+1FBF7", "U+1FBF8", "U+1FBF9">>

DecimalDigits == {DigitChars[d] : d \in 1..Len(DigitChars)}

IsDigit(c) == c \in DecimalDigits

\* int(c) for one digit
DigitValue(c) == ((CHOOSE d \in 1..Len(DigitChars) : DigitChars[d] = c) - 1) % 10

\* str(n) for n >= 0
RECURSIVE IntToStr(_)
IntToStr(n) ==
    IF n < 10 THEN <<DigitChars[n + 1]>>
    ELSE IntToStr(n \div 10) \o <<DigitChars[(n % 10) + 1]>>

\* int(s) for a string of digits
RECURSIVE StrToInt(_)
StrToInt(s) ==
    IF s = <<>> THEN 0
    ELSE StrToInt(Front(s)) * 10 + DigitValue(Last(s))

\* The first index >= i of s that holds c, or 0.
RECURSIVE IndexFrom(_, _, _)
IndexFrom(s, c, i) ==
    IF i > Len(s) THEN 0
    ELSE IF s[i] = c THEN i
    ELSE IndexFrom(s, c, i + 1)

RECURSIVE SkipWhitespace(_, _)
SkipWhitespace(s, i) ==
    IF i <= Len(s) /\ s[i] \in Whitespace THEN SkipWhitespace(s, i + 1) ELSE i

\* f"{n:02d}" for n >= 0
Pad02(n) == IF n < 10 THEN <<"0">> \o IntToStr(n) ELSE IntToStr(n)

(***************************************************************************)
(* Python floats                                                           *)
(***************************************************************************)
\* A float is an IEEE 754 double.  The doubles of the model are held
\* exactly: [neg, mag] with mag the magnitude in units of 2^-65, as eight
\* digits of base 2^13, the lowest first (five below the binary point,
\* three above it).  Every double from 0.001 up to 2^39 is such a number.
LimbBits == 13
LimbBase == 2^13
FracLimbs == 5
NumLimbs == 8
MantissaBits == 53

ZeroMag == [j \in 1..NumLimbs |-> 0]

BigLess(x, y) ==
    \E j \in 1..NumLimbs :
        x[j] < y[j] /\ \A i \in (j + 1)..NumLimbs : x[i] = y[i]

\* the carry out of digit j of x + y
RECURSIVE Carry(_, _, _)
Carry(x, y, j) ==
    IF j = 0 THEN 0 ELSE (x[j] + y[j] + Carry(x, y, j - 1)) \div LimbBase

BigAdd(x, y) ==
    [j \in 1..NumLimbs |-> (x[j] + y[j] + Carry(x, y, j - 1)) % LimbBase]

\* the borrow out of digit j of x - y
RECURSIVE Borrow(_, _, _)
Borrow(x, y, j) ==
    IF j = 0 THEN 0
    ELSE IF x[j] - y[j] - Borrow(x, y, j - 1) < 0 THEN 1 ELSE 0

\* x - y for x >= y
BigSub(x, y) ==
    [j \in 1..NumLimbs |->
        (x[j] - y[j] - Borrow(x, y, j - 1) + LimbBase) % LimbBase]

\* the number of binary digits of x
BitLength(x) ==
    IF x = ZeroMag THEN 0
    ELSE LET top == CHOOSE j \in 1..NumLimbs :
                        x[j] # 0 /\ \A i \in (j + 1)..NumLimbs : x[i] = 0
             bits == CHOOSE b \in 1..LimbBits :
                        2^(b - 1) <= x[top] /\ x[top] < 2^b
         IN  LimbBits * (top - 1) + bits

\* binary digit p of x, the lowest being digit 0
BitAt(x, p) == (x[(p \div LimbBits) + 1] \div 2^(p % LimbBits)) % 2

\* whether x has a 1 below digit p
AnyBelow(x, p) ==
    \/ \E j \in 1..(p \div LimbBits) : x[j] # 0
    \/ x[(p \div LimbBits) + 1] % 2^(p % LimbBits) # 0

\* x with the digits below p cleared
ClearBelow(x, p) ==
    [j \in 1..NumLimbs |->
        IF j <= p \div LimbBits THEN 0
        ELSE IF j = (p \div LimbBits) + 1
        THEN x[j] - (x[j] % 2^(p % LimbBits))
        ELSE x[j]]

PowerOfTwo(p) ==
    [j \in 1..NumLimbs |->
        IF j = (p \div LimbBits) + 1 THEN 2^(p % LimbBits) ELSE 0]

\* The double nearest to x (plus a nonzero rest below its lowest digit when
\* inexact holds): 53 significant digits, ties to the even mantissa.
RoundToDouble(x, inexact) ==
    IF BitLength(x) <= MantissaBits THEN x
    ELSE LET p == BitLength(x) - MantissaBits
             up == /\ BitAt(x, p - 1) = 1
                   /\ \/ AnyBelow(x, p - 1) \/ inexact
                      \/ BitAt(x, p) = 1
         IN  IF up THEN BigAdd(ClearBelow(x, p), PowerOfTwo(p))
             ELSE ClearBelow(x, p)

\* LimbBase^n modulo den
RECURSIVE PowerMod(_, _)
PowerMod(n, den) ==
    IF n = 0 THEN 1 % den ELSE (PowerMod(n - 1, den) * LimbBase) % den

\* what is left of num / den after n digits below the point
RestAfter(num, den, n) == (num * PowerMod(n, den)) % den

\* whole + num / den (num < den <= 1000) cut off after the last digit
Fixed(whole, num, den) ==
    [j \in 1..NumLimbs |->
        IF j <= FracLimbs
        THEN (RestAfter(num, den, FracLimbs - j) * LimbBase) \div den
        ELSE (whole \div LimbBase^(j - FracLimbs - 1)) % LimbBase]

\* float(n) for an int n >= 0, and the float of a decimal whole.num
\* with den = 10^(number of decimals)
FloatOfInt(n) == [neg |-> FALSE, mag |-> Fixed(n, 0, 1)]

FloatOfDecimal(whole, num, den) ==
    [neg |-> FALSE,
     mag |-> RoundToDouble(Fixed(whole, num, den),
                           RestAfter(num, den, FracLimbs) # 0)]

\* the float of a number of milliseconds written as seconds: 2.001
FloatOfMillis(ms) == FloatOfDecimal(ms \div 1000, ms % 1000, 1000)

\* a + b for a, b >= 0
FloatAdd(a, b) ==
    [neg |-> FALSE, mag |-> RoundToDouble(BigAdd(a.mag, b.mag), FALSE)]

\* a - b for a, b >= 0
FloatSub(a, b) ==
    IF BigLess(a.mag, b.mag)
    THEN [neg |-> TRUE, mag |-> RoundToDouble(BigSub(b.mag, a.mag), FALSE)]
    ELSE [neg |-> FALSE, mag |-> RoundToDouble(BigSub(a.mag, b.mag), FALSE)]

\* a < b
FloatLess(a, b) ==
    IF a.neg /\ ~b.neg THEN TRUE
    ELSE IF ~a.neg /\ b.neg THEN FALSE
    ELSE IF a.neg THEN BigLess(b.mag, a.mag)
    ELSE BigLess(a.mag, b.mag)

\* int(a) for a >= 0
IntOfFloat(a) ==
    a.mag[FracLimbs + 1] + a.mag[FracLimbs + 2] * LimbBase
      + a.mag[FracLimbs + 3] * LimbBase * LimbBase

\* round(a * 1000) for a >= 0 that lies within 0.0001 of a whole number of
\* milliseconds
Millis(a) ==
    IntOfFloat(a) * 1000
      + (a.mag[FracLimbs] * 1000 + LimbBase \div 2) \div LimbBase

\* float(text) for a text digits "." digits with at most three decimals
float(text) ==
    LET dot == IndexFrom(text, ".", 1)
        decimals == SubSeq(text, dot + 1, Len(text))
    IN  FloatOfDecimal(StrToInt(SubSeq(text, 1, dot - 1)), StrToInt(decimals),
                       10^Len(decimals))

(***************************************************************************)
(* vtt2md.py : word extraction                                             *)
(***************************************************************************)

\* text.split(sep) for a one-character sep: the pieces from position i on
RECURSIVE SplitFrom(_, _, _)
SplitFrom(text, sep, i) ==
    LET k == IndexFrom(text, sep, i)
    IN  IF k = 0 THEN <<SubSeq(text, i, Len(text))>>
        ELSE <<SubSeq(text, i, k - 1)>> \o SplitFrom(text, sep, k + 1)

split(text, sep) == SplitFrom(text, sep, 1)

\* A timestamp is the text HH:MM:SS.mmm.
\* parts = ts.split(":")
\* int(parts[0]) * 3600 + int(parts[1]) * 60 + float(parts[2])
ts_to_seconds(ts) ==
    LET parts == split(ts, ":")
    IN  FloatAdd(FloatOfInt(StrToInt(parts[1]) * 3600 + StrToInt(parts[2]) * 60),
                 float(parts[3]))

\* A marker with an hour component, H:MM:SS, from one hour on.
SecondsToHmmss(seconds) ==
    LET whole == IntOfFloat(seconds)
    IN  IF whole < 3600
        THEN IntToStr(whole \div 60) \o <<":">> \o Pad02(whole % 60)
        ELSE IntToStr(whole \div 3600) \o <<":">>
               \o Pad02((whole \div 60) % 60) \o <<":">> \o Pad02(whole % 60)

\* m, s = divmod(int(seconds), 60); f"{m}:{s:02d}"
seconds_to_mmss(seconds) ==
    LET whole == IntOfFloat(seconds)
    IN  IntToStr(whole \div 60) \o <<":">> \o Pad02(whole % 60)

\* A caption is [start, raw]: caption.start, a timestamp, and
\* caption.raw_text, the text of the cue with its tags.

\* whether text holds sub at position i
HoldsAt(text, sub, i) ==
    i >= 1 /\ i + Len(sub) - 1 <= Len(text)
      /\ SubSeq(text, i, i + Len(sub) - 1) = sub

\* the first position >= i where text holds sub, or 0
Find(text, sub, i) ==
    IF \E k \in i..Len(text) : HoldsAt(text, sub, k)
    THEN CHOOSE k \in i..Len(text) :
             /\ HoldsAt(text, sub, k)
             /\ \A m \in i..(k - 1) : ~HoldsAt(text, sub, m)
    ELSE 0

TagOpen == <<"<", "c", ">">>
TagClose == <<"<", "/", "c", ">">>

\* "<c>" in raw
HasInlineTags(raw) == Find(raw, TagOpen, 1) # 0

\* <\d{2}:\d{2}:\d{2}\.\d{3}> at position i of line
TimestampTagAt(line, i) ==
    /\ i >= 1 /\ i + 13 <= Len(line)
    /\ line[i] = "<" /\ line[i + 3] = ":" /\ line[i + 6] = ":"
    /\ line[i + 9] = "." /\ line[i + 13] = ">"
    /\ \A k \in {1, 2, 4, 5, 7, 8, 10, 11, 12} : IsDigit(line[i + k])

\* _LEADING_WORD_RE.match(second_line): one or more characters other than
\* "<" from the start of the line, directly followed by a timestamp tag;
\* kept when it is not only whitespace.
LeadingWord(cue_start, line) ==
    LET tag == Find(line, <<"<">>, 1)
    IN  IF tag > 1 /\ TimestampTagAt(line, tag)
           /\ strip(SubSeq(line, 1, tag - 1)) # <<>>
        THEN << <<ts_to_seconds(cue_start), strip(SubSeq(line, 1, tag - 1))>> >>
        ELSE <<>>

\* for m in _WORD_TAG_RE.finditer(second_line), from position i on: a
\* timestamp tag, "<c>", whitespace, the shortest text up to "</c>";
\* group(2) is that text and is stripped; empty words are dropped.
RECURSIVE TaggedWords(_, _)
TaggedWords(line, i) ==
    LET tag == Find(line, <<"<">>, i)
        text == SkipWhitespace(line, tag + 17)
        close == Find(line, TagClose, text)
        word == strip(SubSeq(line, text, close - 1))
    IN  IF tag = 0 THEN <<>>
        ELSE IF TimestampTagAt(line, tag) /\ HoldsAt(line, TagOpen, tag + 14)
                /\ close # 0
        THEN (IF word # <<>>
              THEN << <<ts_to_seconds(SubSeq(line, tag + 1, tag + 12)), word>> >>
              ELSE <<>>) \o TaggedWords(line, close + 4)
        ELSE TaggedWords(line, tag + 1)

\* lines = raw.split("\n"); second_line = lines[1]
parse_rolling_cue(cue_start, raw) ==
    LET raw_lines == split(raw, NL)
    IN  IF Len(raw_lines) < 2 THEN <<>>
        ELSE LeadingWord(cue_start, raw_lines[2])
               \o TaggedWords(raw_lines[2], 1)

\* AddPair without the membership test.
AddPairNoDedup(acc, pair) ==
    [all_words |-> Append(acc.all_words, pair), seen |-> acc.seen \cup {pair}]

\* The body of "for pair in pairs": acc is [all_words, seen].
AddPair(acc, pair) ==
    IF pair \notin acc.seen
    THEN [all_words |-> Append(acc.all_words, pair),
          seen |-> acc.seen \cup {pair}]
    ELSE acc

RECURSIVE AddPairs(_, _)
AddPairs(acc, pairs) ==
    IF pairs = <<>> THEN acc
    ELSE AddPairs(AddPair(acc, Head(pairs)), Tail(pairs))

\* The body of "for caption in webvtt.read(path)".
AddCaption(acc, caption) ==
    IF ~HasInlineTags(caption.raw) THEN acc
    ELSE AddPairs(acc, parse_rolling_cue(caption.start, caption.raw))

RECURSIVE AddCaptions(_, _)
AddCaptions(acc, cs) ==
    IF cs = <<>> THEN acc
    ELSE AddCaptions(AddCaption(acc, Head(cs)), Tail(cs))

\* list.sort(key=lambda x: x[0]) is stable: x goes after every element
\* whose key is not greater.
RECURSIVE InsertByTs(_, _)
InsertByTs(sorted, x) ==
    IF sorted = <<>> THEN <<x>>
    ELSE IF ~FloatLess(x[1], Last(sorted)[1]) THEN Append(sorted, x)
    ELSE Append(InsertByTs(Front(sorted), x), Last(sorted))

RECURSIVE SortFrom(_, _)
SortFrom(sorted, rest) ==
    IF rest = <<>> THEN sorted
    ELSE SortFrom(InsertByTs(sorted, Head(rest)), Tail(rest))

\* The sort with equal keys reversed: x goes before the elements whose key
\* is equal.
RECURSIVE InsertByTsFirst(_, _)
InsertByTsFirst(sorted, x) ==
    IF sorted = <<>> THEN <<x>>
    ELSE IF FloatLess(Last(sorted)[1], x[1]) THEN Append(sorted, x)
    ELSE Append(InsertByTsFirst(Front(sorted), x), Last(sorted))

RECURSIVE UnstableSortFrom(_, _)
UnstableSortFrom(sorted, rest) ==
    IF rest = <<>> THEN sorted
    ELSE UnstableSortFrom(InsertByTsFirst(sorted, Head(rest)), Tail(rest))

UnstableSort(all_words) == UnstableSortFrom(<<>>, all_words)

SortByTs(all_words) == SortFrom(<<>>, all_words)

parse_vtt(cs) ==
    SortByTs(AddCaptions([all_words |-> <<>>, seen |-> {}], cs).all_words)

(***************************************************************************)
(* vtt2md.py : sentence detection                                          *)
(***************************************************************************)

\* A unit is <<start_ts, text>>; (None, "") is the paragraph break.
Sentinel == <<None, <<>> >>
IsSentinel(u) == u[1] = None /\ u[2] = <<>>

SentenceTerminals == {".", "!", "?"}
SentenceClosers == {"\"", "'", "U+2019", "U+201D", ")"}

RECURSIVE DropClosers(_)
DropClosers(word) ==
    IF word # <<>> /\ Last(word) \in SentenceClosers
    THEN DropClosers(Front(word)) ELSE word

\* _SENTENCE_END_RE.search(word):  [.!?]["'\u2019\u201D)]*$, where $ is
\* the end of the word or the place before a newline that ends it
SentenceEnd(word) ==
    LET core == DropClosers(IF word # <<>> /\ Last(word) = NL
                            THEN Front(word) ELSE word)
    IN  core # <<>> /\ Last(core) \in SentenceTerminals

\* sentence = " ".join(current_sentence_words), with the [M:SS] prefix
\* "if timestamps and pending_ts is not None"
FormatSentence(current_sentence_words, pending_ts, ts_on) ==
    LET sentence == join(<<" ">>, current_sentence_words)
    IN  IF ts_on /\ pending_ts # None
        THEN <<"[">> \o seconds_to_mmss(pending_ts[1]) \o <<"]", " ">> \o sentence
        ELSE sentence

\* The loop state is [result, current_sentence_words, prev_ts, pending_ts].

\* PauseFlush with a break already at a gap equal to the threshold.
PauseFlushAtThreshold(st, ts, threshold, ts_on) ==
    IF ~FloatLess(FloatSub(ts, st.prev_ts), threshold)
       /\ (st.current_sentence_words # <<>> \/ st.result # <<>>)
    THEN [st EXCEPT
            !.result =
                (IF st.current_sentence_words # <<>>
                 THEN Append(st.result,
                             <<st.pending_ts,
                               FormatSentence(st.current_sentence_words,
                                              st.pending_ts, ts_on)>>)
                 ELSE st.result) \o <<Sentinel>>,
            !.current_sentence_words = <<>>,
            !.pending_ts = Some(ts)]
    ELSE st

\* "Detect paragraph break (long pause)"
PauseFlush(st, ts, threshold, ts_on) ==
    IF FloatLess(threshold, FloatSub(ts, st.prev_ts))
       /\ (st.current_sentence_words # <<>> \/ st.result # <<>>)
    THEN [st EXCEPT
            !.result =
                (IF st.current_sentence_words # <<>>
                 THEN Append(st.result,
                             <<st.pending_ts,
                               FormatSentence(st.current_sentence_words,
                                              st.pending_ts, ts_on)>>)
                 ELSE st.result) \o <<Sentinel>>,
            !.current_sentence_words = <<>>,
            !.pending_ts = Some(ts)]
    ELSE st

\* "Add word to current sentence"
AppendWord(st, ts, word) ==
    [st EXCEPT !.current_sentence_words = Append(@, word), !.prev_ts = ts]

\* SentenceFlush that ends the paragraph with every sentence.
SentenceFlushWithBreak(st, word, ts_on) ==
    IF SentenceEnd(word)
    THEN [st EXCEPT
            !.result = @ \o << <<st.pending_ts,
                                 FormatSentence(st.current_sentence_words,
                                                st.pending_ts, ts_on)>>,
                               Sentinel>>,
            !.current_sentence_words = <<>>,
            !.pending_ts = None]
    ELSE st

\* "Detect sentence end"
SentenceFlush(st, word, ts_on) ==
    IF SentenceEnd(word)
    THEN [st EXCEPT
            !.result = Append(@, <<st.pending_ts,
                                   FormatSentence(st.current_sentence_words,
                                                  st.pending_ts, ts_on)>>),
            !.current_sentence_words = <<>>,
            !.pending_ts = None]
    ELSE st

\* "Track start of next sentence"
TrackStart(st, ts) ==
    IF st.pending_ts = None /\ st.current_sentence_words # <<>>
    THEN [st EXCEPT !.pending_ts = Some(ts)]
    ELSE st

\* One iteration of "for ts, word in words".
WordStep(st, w, threshold, ts_on) ==
    TrackStart(
        SentenceFlush(
            AppendWord(PauseFlush(st, w[1], threshold, ts_on), w[1], w[2]),
            w[2], ts_on),
        w[1])

RECURSIVE WordLoop(_, _, _, _)
WordLoop(st, ws, threshold, ts_on) ==
    IF ws = <<>> THEN st
    ELSE WordLoop(WordStep(st, Head(ws), threshold, ts_on), Tail(ws),
                  threshold, ts_on)

\* FlushRemaining that leaves the buffered words out.
FlushRemainingNever(st, ts_on) == st.result

\* "Flush remaining"
FlushRemaining(st, ts_on) ==
    IF st.current_sentence_words # <<>>
    THEN Append(st.result,
                <<st.pending_ts,
                  FormatSentence(st.current_sentence_words, st.pending_ts,
                                 ts_on)>>)
    ELSE st.result

words_to_sentences(ws, threshold, ts_on) ==
    IF ws = <<>> THEN <<>>
    ELSE FlushRemaining(
             WordLoop([result |-> <<>>, current_sentence_words |-> <<>>,
                       prev_ts |-> ws[1][1], pending_ts |-> Some(ws[1][1])],
                      ws, threshold, ts_on),
             ts_on)

(***************************************************************************)
(* vtt2md.py : Markdown formatting                                         *)
(***************************************************************************)

\* A chapter is a record that may hold start_time, a float, and title.
\* c.get("start_time", 0)
ChapterStart(c) ==
    IF "start_time" \in DOMAIN c THEN c.start_time ELSE FloatOfInt(0)

\* c.get("title", "")
ChapterTitle(c) == IF "title" \in DOMAIN c THEN c.title ELSE <<>>

\* sorted(chapters, key=lambda c: c.get("start_time", 0)), a stable sort
RECURSIVE InsertChapter(_, _)
InsertChapter(sorted, c) ==
    IF sorted = <<>> THEN <<c>>
    ELSE IF ~FloatLess(ChapterStart(c), ChapterStart(Last(sorted)))
    THEN Append(sorted, c)
    ELSE Append(InsertChapter(Front(sorted), c), Last(sorted))

RECURSIVE SortChaptersFrom(_, _)
SortChaptersFrom(sorted, rest) ==
    IF rest = <<>> THEN sorted
    ELSE SortChaptersFrom(InsertChapter(sorted, Head(rest)), Tail(rest))

SortChapters(chs) == SortChaptersFrom(<<>>, chs)

\* if out_lines and out_lines[-1] != "": out_lines.append("")
EnsureBlank(out_lines) ==
    IF out_lines # <<>> /\ Last(out_lines) # <<>>
    THEN Append(out_lines, <<>>) ELSE out_lines

HeadingLine(title) == <<"#", "#", " ">> \o title

\* The loop state is [out_lines, chapter_queue].

\* BreakStep without the test for a blank line already there.
BreakStepAlways(st) == [st EXCEPT !.out_lines = Append(@, <<>>)]

\* "Paragraph break": "Avoid duplicate blank lines"
BreakStep(st) == [st EXCEPT !.out_lines = EnsureBlank(@)]

\* PopChapters with an "if" for the "while": at most one chapter a unit.
PopOneChapter(st, start_ts) ==
    IF st.chapter_queue # <<>> /\ start_ts # None
    THEN LET ch == Head(st.chapter_queue)
         IN  IF ~FloatLess(start_ts[1], ChapterStart(ch))
                /\ ChapterTitle(ch) # <<>>
             THEN [out_lines |-> EnsureBlank(st.out_lines)
                                   \o <<HeadingLine(ChapterTitle(ch)), <<>> >>,
                   chapter_queue |-> Tail(st.chapter_queue)]
             ELSE st
    ELSE st

\* "Insert chapter headings whose start_time <= this sentence's timestamp"
RECURSIVE PopChapters(_, _)
PopChapters(st, start_ts) ==
    IF st.chapter_queue # <<>> /\ start_ts # None
    THEN LET ch == Head(st.chapter_queue)
         IN  IF ~FloatLess(start_ts[1], ChapterStart(ch))
                /\ ChapterTitle(ch) # <<>>
             THEN PopChapters(
                      [out_lines |-> EnsureBlank(st.out_lines)
                                       \o <<HeadingLine(ChapterTitle(ch)),
                                            <<>> >>,
                       chapter_queue |-> Tail(st.chapter_queue)],
                      start_ts)
             ELSE st
    ELSE st

\* One iteration of "for start_ts, text in sentences".
UnitStep(st, u) ==
    IF IsSentinel(u) THEN BreakStep(st)
    ELSE [PopChapters(st, u[1]) EXCEPT !.out_lines = Append(@, u[2])]

RECURSIVE UnitLoop(_, _)
UnitLoop(st, us) ==
    IF us = <<>> THEN st ELSE UnitLoop(UnitStep(st, Head(us)), Tail(us))

\* "Clean trailing blank lines"
RECURSIVE TrimTrailingBlank(_)
TrimTrailingBlank(out_lines) ==
    IF out_lines # <<>> /\ Last(out_lines) = <<>>
    THEN TrimTrailingBlank(Front(out_lines)) ELSE out_lines

\* The list of lines joined by format_markdown's return statement.
format_markdown_lines(us, chs) ==
    TrimTrailingBlank(
        UnitLoop([out_lines |-> <<>>,
                  chapter_queue |-> IF chs # <<>> THEN SortChapters(chs)
                                    ELSE <<>>],
                 us).out_lines)

\* return "\n".join(out_lines) + "\n"
format_markdown(us, chs) == join(<<NL>>, format_markdown_lines(us, chs)) \o <<NL>>

(***************************************************************************)
(* apply_structure.py : apply_structure                                    *)
(***************************************************************************)

RECURSIVE SkipDigits(_, _)
SkipDigits(s, i) ==
    IF i <= Len(s) /\ IsDigit(s[i]) THEN SkipDigits(s, i + 1) ELSE i



\* The end (exclusive) of the match of  \[(\d+):(\d{2})\]  at position i of
\* s, or 0 when it does not match there.
MarkerEnd(s, i) ==
    LET c == SkipDigits(s, i + 1)
    IN  IF /\ i <= Len(s) /\ s[i] = "["
           /\ c > i + 1
           /\ c + 3 <= Len(s)
           /\ s[c] = ":" /\ IsDigit(s[c + 1]) /\ IsDigit(s[c + 2])
           /\ s[c + 3] = "]"
        THEN c + 4 ELSE 0

\* _TIMESTAMP_RE = ^\[(\d+):(\d{2})\]\s* : the end (exclusive) of its match
\* at the start of s, or 0.
TimestampMatchEnd(s) ==
    IF MarkerEnd(s, 1) = 0 THEN 0 ELSE SkipWhitespace(s, MarkerEnd(s, 1))

\* strip_timestamp that strips nothing.
KeepTimestamp(line) == line

\* _TIMESTAMP_RE.sub("", line)
strip_timestamp(line) ==
    IF TimestampMatchEnd(line) = 0 THEN line
    ELSE SubSeq(line, TimestampMatchEnd(line), Len(line))

\* sections = {s["line"]: s["title"] for s in hints.get("sections", [])}:
\* the title of the last entry that names the line.
section_lines(secs) == {secs[k].line : k \in 1..Len(secs)}

SectionTitle(secs, i) ==
    LET last == CHOOSE k \in 1..Len(secs) :
                    /\ secs[k].line = i
                    /\ \A j \in (k + 1)..Len(secs) : secs[j].line # i
    IN  secs[last].title

\* The loop state is [out, para].
\* _flush_para
FlushPara(st) ==
    IF st.para # <<>>
    THEN [out |-> Append(st.out, join(<<" ">>, st.para)), para |-> <<>>]
    ELSE st

\* "Preserve existing headings as-is"
HeadingStep(st, stripped) ==
    [FlushPara(st) EXCEPT
        !.out = EnsureBlank(@) \o <<stripped, <<>> >>]

\* BreakBefore without the paragraph-break branch.
BreakBeforeNoParagraphs(st, i, h) ==
    IF i \in section_lines(h.sections)
    THEN [FlushPara(st) EXCEPT
            !.out = EnsureBlank(@)
                      \o <<HeadingLine(SectionTitle(h.sections, i)), <<>> >>]
    ELSE st

\* BreakBefore that drops the hinted section of a line that directly follows
\* a heading.
BreakBeforeChapterFirst(st, i, h) ==
    IF i \in section_lines(h.sections)
       /\ ~(st.para = <<>> /\ Len(st.out) >= 2
            /\ StartsWith(st.out[Len(st.out) - 1], <<"#", "#", " ">>))
    THEN [FlushPara(st) EXCEPT
            !.out = EnsureBlank(@)
                      \o <<HeadingLine(SectionTitle(h.sections, i)), <<>> >>]
    ELSE IF i \in h.paragraphs
    THEN [FlushPara(st) EXCEPT !.out = EnsureBlank(@)]
    ELSE st

\* if i in section_lines: ... elif i in paragraph_breaks: ...
BreakBefore(st, i, h) ==
    IF i \in section_lines(h.sections)
    THEN [FlushPara(st) EXCEPT
            !.out = EnsureBlank(@)
                      \o <<HeadingLine(SectionTitle(h.sections, i)), <<>> >>]
    ELSE IF i \in h.paragraphs
    THEN [FlushPara(st) EXCEPT !.out = EnsureBlank(@)]
    ELSE st

\* if para: stripped = _strip_timestamp(stripped);  para.append(stripped)
Accumulate(st, stripped) ==
    [st EXCEPT !.para = Append(@, IF st.para # <<>>
                                  THEN strip_timestamp(stripped)
                                  ELSE stripped)]

\* LineStep that looks at the hints before it looks for a heading.
LineStepHintsFirst(st, i, line, h) ==
    LET stripped == rstrip(line)
    IN  IF stripped = <<>> THEN st
        ELSE IF i \in section_lines(h.sections) \cup h.paragraphs
        THEN Accumulate(BreakBefore(st, i, h), stripped)
        ELSE IF Head(stripped) = "#" THEN HeadingStep(st, stripped)
        ELSE Accumulate(BreakBefore(st, i, h), stripped)

\* One iteration of "for i, line in enumerate(lines, 1)".
LineStep(st, i, line, h) ==
    LET stripped == rstrip(line)
    IN  IF stripped = <<>> THEN st
        ELSE IF Head(stripped) = "#" THEN HeadingStep(st, stripped)
        ELSE Accumulate(BreakBefore(st, i, h), stripped)

RECURSIVE LineLoop(_, _, _, _)
LineLoop(st, i, ls, h) ==
    IF i > Len(ls) THEN st
    ELSE LineLoop(LineStep(st, i, ls[i], h), i + 1, ls, h)

\* if title: out.append(f"# {title}"); out.append("")
TitleLines(title) ==
    IF title # <<>> THEN << <<"#", " ">> \o title, <<>> >> ELSE <<>>

\* The list of lines joined by apply_structure's return statement.
apply_structure_lines(ls, h) ==
    FlushPara(LineLoop([out |-> TitleLines(h.title), para |-> <<>>],
                       1, ls, h)).out

\* return "\n".join(out) + "\n"
apply_structure(ls, h) == join(<<NL>>, apply_structure_lines(ls, h)) \o <<NL>>

(***************************************************************************)
(* apply_structure.py : enrich_links, linkify_timestamps, main             *)
(***************************************************************************)
\* The characters that str.lower() changes, in code point order, and
\* LowerChars, the first character of what it makes of each.
UpperChars ==
    <<"A", "B", "C", "D", "E", "F", "G", "H", "I", "J", "K", "L", "M", "N",
      "O", "P", "Q", "R", "S", "T", "U", "V", "W", "X", "Y", "Z", "U+00C0",
      "U+00C1", "U+00C2", "U+00C3", "U+00C4", "U+00C5", "U+00C6", "U+00C7",
      "U+00C8", "U+00C9", "U+00CA", "U+00CB", "U+00CC", "U+00CD", "U+00CE",
      "U+00CF", "U+00D0", "U+00D1", "U+00D2", "U+00D3", "U+00D4", "U+00D5",
      "U+00D6", "U+00D8", "U+00D9", "U+00DA", "U+00DB", "U+00DC", "U+00DD",
      "U+00DE", "U+0100", "U+0102", "U+0104", "U+0106", "U+0108", "U+010A",
      "U+010C", "U+010E", "U+0110", "U+0112", "U+0114", "U+0116", "U+0118",
      "U+011A", "U+011C", "U+011E", "U+0120", "U+0122", "U+0124", "U+0126",
      "U+0128", "U+012A", "U+012C", "U+012E", "U+0130", "U+0132", "U+0134",
      "U+0136", "U+0139", "U+013B", "U+013D", "U+013F", "U+0141", "U+0143",
      "U+0145", "U+0147", "U+014A", "U+014C", "U+014E", "U+0150", "U+0152",
      "U+0154", "U+0156", "U+0158", "U+015A", "U+015C", "U+015E", "U+0160",
      "U+0162", "U+0164", "U+0166", "U+0168", "U+016A", "U+016C", "U+016E",
      "U+0170", "U+0172", "U+0174", "U+0176", "U+0178", "U+0179", "U+017B",
      "U+017D", "U+0181", "U+0182", "U+0184", "U+0186", "U+0187", "U+0189",
      "U+018A", "U+018B", "U+018E", "U+018F", "U+0190", "U+0191", "U+0193",
      "U+0194", "U+0196", "U+0197", "U+0198", "U+019C", "U+019D", "U+019F",
      "U+01A0", "U+01A2", "U+01A4", "U+01A6", "U+01A7", "U+01A9", "U+01AC",
      "U+01AE", "U+01AF", "U+01B1", "U+01B2", "U+01B3", "U+01B5", "U+01B7",
      "U+01B8", "U+01BC", "U+01C4", "U+01C5", "U+01C7", "U+01C8", "U+01CA",
      "U+01CB", "U+01CD", "U+01CF", "U+01D1", "U+01D3", "U+01D5", "U+01D7",
      "U+01D9", "U+01DB", "U+01DE", "U+01E0", "U+01E2", "U+01E4", "U+01E6",
      "U+01E8", "U+01EA", "U+01EC", "U+01EE", "U+01F1", "U+01F2", "U+01F4",
      "U+01F6", "U+01F7", "U+01F8", "U+01FA", "U+01FC", "U+01FE", "U+0200",
      "U+0202", "U+0204", "U+0206", "U+0208", "U+020A", "U+020C", "U+020E",
      "U+0210", "U+0212", "U+0214", "U+0216", "U+0218", "U+021A", "U+021C",
      "U+021E", "U+0220", "U+0222", "U+0224", "U+0226", "U+0228", "U+022A",
      "U+022C", "U+022E", "U+0230", "U+0232", "U+023A", "U+023B", "U+023D",
      "U+023E", "U+0241", "U+0243", "U+0244", "U+0245", "U+0246", "U+0248",
      "U+024A", "U+024C", "U+024E", "U+0370", "U+0372", "U+0376", "U+037F",
      "U+0386", "U+0388", "U+0389", "U+038A", "U+038C", "U+038E", "U+038F",
      "U+0391", "U+0392", "U+0393", "U+0394", "U+0395", "U+0396", "U+0397",
      "U+0398", "U+0399", "U+039A", "U+039B", "U+039C", "U+039D", "U+039E",
      "U+039F", "U+03A0", "U+03A1", "U+03A3", "U+03A4", "U+03A5", "U+03A6",
      "U+03A7", "U+03A8", "U+03A9", "U+03AA", "U+03AB", "U+03CF", "U+03D8",
      "U+03DA", "U+03DC", "U+03DE", "U+03E0", "U+03E2", "U+03E4", "U+03E6",
      "U+03E8", "U+03EA", "U+03EC", "U+03EE", "U+03F4", "U+03F7", "U+03F9",
      "U+03FA", "U+03FD", "U+03FE", "U+03FF", "U+0400", "U+0401", "U+0402",
      "U+0403", "U+0404", "U+0405", "U+0406", "U+0407", "U+0408", "U+0409",
      "U+040A", "U+040B", "U+040C", "U+040D", "U+040E", "U+040F", "U+0410",
      "U+0411", "U+0412", "U+0413", "U+0414", "U+0415", "U+0416", "U+0417",
      "U+0418", "U+0419", "U+041A", "U+041B", "U+041C", "U+041D", "U+041E",
      "U+041F", "U+0420", "U+0421", "U+0422", "U+0423", "U+0424", "U+0425",
      "U+0426", "U+0427", "U+0428", "U+0429", "U+042A", "U+042B", "U+042C",
      "U+042D", "U+042E", "U+042F", "U+0460", "U+0462", "U+0464", "U+0466",
      "U+0468", "U+046A", "U+046C", "U+046E", "U+0470", "U+0472", "U+0474",
      "U+0476", "U+0478", "U+047A", "U+047C", "U+047E", "U+0480", "U+048A",
      "U+048C", "U+048E", "U+0490", "U+0492", "U+0494", "U+0496", "U+0498",
      "U+049A", "U+049C", "U+049E", "U+04A0", "U+04A2", "U+04A4", "U+04A6",
      "U+04A8", "U+04AA", "U+04AC", "U+04AE", "U+04B0", "U+04B2", "U+04B4",
      "U+04B6", "U+04B8", "U+04BA", "U+04BC", "U+04BE", "U+04C0", "U+04C1",
      "U+04C3", "U+04C5", "U+04C7", "U+04C9", "U+04CB", "U+04CD", "U+04D0",
      "U+04D2", "U+04D4", "U+04D6", "U+04D8", "U+04DA", "U+04DC", "U+04DE",
      "U+04E0", "U+04E2", "U+04E4", "U+04E6", "U+04E8", "U+04EA", "U+04EC",
      "U+04EE", "U+04F0", "U+04F2", "U+04F4", "U+04F6", "U+04F8", "U+04FA",
      "U+04FC", "U+04FE", "U+0500", "U+0502", "U+0504", "U+0506", "U+0508",
      "U+050A", "U+050C", "U+050E", "U+0510", "U+0512", "U+0514", "U+0516",
      "U+0518", "U+051A", "U+051C", "U+051E", "U+0520", "U+0522", "U+0524",
      "U+0526", "U+0528", "U+052A", "U+052C", "U+052E", "U+0531", "U+0532",
      "U+0533", "U+0534", "U+0535", "U+0536", "U+0537", "U+0538", "U+0539",
      "U+053A", "U+053B", "U+053C", "U+053D", "U+053E", "U+053F", "U+0540",
      "U+0541", "U+0542", "U+0543", "U+0544", "U+0545", "U+0546", "U+0547",
      "U+0548", "U+0549", "U+054A", "U+054B", "U+054C", "U+054D", "U+054E",
      "U+054F", "U+0550", "U+0551", "U+0552", "U+0553", "U+0554", "U+0555",
      "U+0556", "U+10A0", "U+10A1", "U+10A2", "U+10A3", "U+10A4", "U+10A5",
      "U+10A6", "U+10A7", "U+10A8", "U+10A9", "U+10AA", "U+10AB", "U+10AC",
      "U+10AD", "U+10AE", "U+10AF", "U+10B0", "U+10B1", "U+10B2", "U+10B3",
      "U+10B4", "U+10B5", "U+10B6", "U+10B7", "U+10B8", "U+10B9", "U+10BA",
      "U+10BB", "U+10BC", "U+10BD", "U+10BE", "U+10BF", "U+10C0", "U+10C1",
      "U+10C2", "U+10C3", "U+10C4", "U+10C5", "U+10C7", "U+10CD", "U+13A0",
      "U+13A1", "U+13A2", "U+13A3", "U+13A4", "U+13A5", "U+13A6", "U+13A7",
      "U+13A8", "U+13A9", "U+13AA", "U+13AB", "U+13AC", "U+13AD", "U+13AE",
      "U+13AF", "U+13B0", "U+13B1", "U+13B2", "U+13B3", "U+13B4", "U+13B5",
      "U+13B6", "U+13B7", "U+13B8", "U+13B9", "U+13BA", "U+13BB", "U+13BC",
      "U+13BD", "U+13BE", "U+13BF", "U+13C0", "U+13C1", "U+13C2", "U+13C3",
      "U+13C4", "U+13C5", "U+13C6", "U+13C7", "U+13C8", "U+13C9", "U+13CA",
      "U+13CB", "U+13CC", "U+13CD", "U+13CE", "U+13CF", "U+13D0", "U+13D1",
      "U+13D2", "U+13D3", "U+13D4", "U+13D5", "U+13D6", "U+13D7", "U+13D8",
      "U+13D9", "U+13DA", "U+13DB", "U+13DC", "U+13DD", "U+13DE", "U+13DF",
      "U+13E0", "U+13E1", "U+13E2", "U+13E3", "U+13E4", "U+13E5", "U+13E6",
      "U+13E7", "U+13E8", "U+13E9", "U+13EA", "U+13EB", "U+13EC", "U+13ED",
      "U+13EE", "U+13EF", "U+13F0", "U+13F1", "U+13F2", "U+13F3", "U+13F4",
      "U+13F5", "U+1C90", "U+1C91", "U+1C92", "U+1C93", "U+1C94", "U+1C95",
      "U+1C96", "U+1C97", "U+1C98", "U+1C99", "U+1C9A", "U+1C9B", "U+1C9C",
      "U+1C9D", "U+1C9E", "U+1C9F", "U+1CA0", "U+1CA1", "U+1CA2", "U+1CA3",
      "U+1CA4", "U+1CA5", "U+1CA6", "U+1CA7", "U+1CA8", "U+1CA9", "U+1CAA",
      "U+1CAB", "U+1CAC", "U+1CAD", "U+1CAE", "U+1CAF", "U+1CB0", "U+1CB1",
      "U+1CB2", "U+1CB3", "U+1CB4", "U+1CB5", "U+1CB6", "U+1CB7", "U+1CB8",
      "U+1CB9", "U+1CBA", "U+1CBD", "U+1CBE", "U+1CBF", "U+1E00", "U+1E02",
      "U+1E04", "U+1E06", "U+1E08", "U+1E0A", "U+1E0C", "U+1E0E", "U+1E10",
      "U+1E12", "U+1E14", "U+1E16", "U+1E18", "U+1E1A", "U+1E1C", "U+1E1E",
      "U+1E20", "U+1E22", "U+1E24", "U+1E26", "U+1E28", "U+1E2A", "U+1E2C",
      "U+1E2E", "U+1E30", "U+1E32", "U+1E34", "U+1E36", "U+1E38", "U+1E3A",
      "U+1E3C", "U+1E3E", "U+1E40", "U+1E42", "U+1E44", "U+1E46", "U+1E48",
      "U+1E4A", "U+1E4C", "U+1E4E", "U+1E50", "U+1E52", "U+1E54", "U+1E56",
      "U+1E58", "U+1E5A", "U+1E5C", "U+1E5E", "U+1E60", "U+1E62", "U+1E64",
      "U+1E66", "U+1E68", "U+1E6A", "U+1E6C", "U+1E6E", "U+1E70", "U+1E72",
      "U+1E74", "U+1E76", "U+1E78", "U+1E7A", "U+1E7C", "U+1E7E", "U+1E80",
      "U+1E82", "U+1E84", "U+1E86", "U+1E88", "U+1E8A", "U+1E8C", "U+1E8E",
      "U+1E90", "U+1E92", "U+1E94", "U+1E9E", "U+1EA0", "U+1EA2", "U+1EA4",
      "U+1EA6", "U+1EA8", "U+1EAA", "U+1EAC", "U+1EAE", "U+1EB0", "U+1EB2",
      "U+1EB4", "U+1EB6", "U+1EB8", "U+1EBA", "U+1EBC", "U+1EBE", "U+1EC0",
      "U+1EC2", "U+1EC4", "U+1EC6", "U+1EC8", "U+1ECA", "U+1ECC", "U+1ECE",
      "U+1ED0", "U+1ED2", "U+1ED4", "U+1ED6", "U+1ED8", "U+1EDA", "U+1EDC",
      "U+1EDE", "U+1EE0", "U+1EE2", "U+1EE4", "U+1EE6", "U+1EE8", "U+1EEA",
      "U+1EEC", "U+1EEE", "U+1EF0", "U+1EF2", "U+1EF4", "U+1EF6", "U+1EF8",
      "U+1EFA", "U+1EFC", "U+1EFE", "U+1F08", "U+1F09", "U+1F0A", "U+1F0B",
      "U+1F0C", "U+1F0D", "U+1F0E", "U+1F0F", "U+1F18", "U+1F19", "U+1F1A",
      "U+1F1B", "U+1F1C", "U+1F1D", "U+1F28", "U+1F29", "U+1F2A", "U+1F2B",
      "U+1F2C", "U+1F2D", "U+1F2E", "U+1F2F", "U+1F38", "U+1F39", "U+1F3A",
      "U+1F3B", "U+1F3C", "U+1F3D", "U+1F3E", "U+1F3F", "U+1F48", "U+1F49",
      "U+1F4A", "U+1F4B", "U+1F4C", "U+1F4D", "U+1F59", "U+1F5B", "U+1F5D",
      "U+1F5F", "U+1F68", "U+1F69", "U+1F6A", "U+1F6B", "U+1F6C", "U+1F6D",
      "U+1F6E", "U+1F6F", "U+1F88", "U+1F89", "U+1F8A", "U+1F8B", "U+1F8C",
      "U+1F8D", "U+1F8E", "U+1F8F", "U+1F98", "U+1F99", "U+1F9A", "U+1F9B",
      "U+1F9C", "U+1F9D", "U+1F9E", "U+1F9F", "U+1FA8", "U+1FA9", "U+1FAA",
      "U+1FAB", "U+1FAC", "U+1FAD", "U+1FAE", "U+1FAF", "U+1FB8", "U+1FB9",
      "U+1FBA", "U+1FBB", "U+1FBC", "U+1FC8", "U+1FC9", "U+1FCA", "U+1FCB",
      "U+1FCC", "U+1FD8", "U+1FD9", "U+1FDA", "U+1FDB", "U+1FE8", "U+1FE9",
      "U+1FEA", "U+1FEB", "U+1FEC", "U+1FF8", "U+1FF9", "U+1FFA", "U+1FFB",
      "U+1FFC", "U+2126", "U+212A", "U+212B", "U+2132", "U+2160", "U+2161",
      "U+2162", "U+2163", "U+2164", "U+2165", "U+2166", "U+2167", "U+2168",
      "U+2169", "U+216A", "U+216B", "U+216C", "U+216D", "U+216E", "U+216F",
      "U+2183", "U+24B6", "U+24B7", "U+24B8", "U+24B9", "U+24BA", "U+24BB",
      "U+24BC", "U+24BD", "U+24BE", "U+24BF", "U+24C0", "U+24C1", "U+24C2",
      "U+24C3", "U+24C4", "U+24C5", "U+24C6", "U+24C7", "U+24C8", "U+24C9",
      "U+24CA", "U+24CB", "U+24CC", "U+24CD", "U+24CE", "U+24CF", "U+2C00",
      "U+2C01", "U+2C02", "U+2C03", "U+2C04", "U+2C05", "U+2C06", "U+2C07",
      "U+2C08", "U+2C09", "U+2C0A", "U+2C0B", "U+2C0C", "U+2C0D", "U+2C0E",
      "U+2C0F", "U+2C10", "U+2C11", "U+2C12", "U+2C13", "U+2C14", "U+2C15",
      "U+2C16", "U+2C17", "U+2C18", "U+2C19", "U+2C1A", "U+2C1B", "U+2C1C",
      "U+2C1D", "U+2C1E", "U+2C1F", "U+2C20", "U+2C21", "U+2C22", "U+2C23",
      "U+2C24", "U+2C25", "U+2C26", "U+2C27", "U+2C28", "U+2C29", "U+2C2A",
      "U+2C2B", "U+2C2C", "U+2C2D", "U+2C2E", "U+2C2F", "U+2C60", "U+2C62",
      "U+2C63", "U+2C64", "U+2C67", "U+2C69", "U+2C6B", "U+2C6D", "U+2C6E",
      "U+2C6F", "U+2C70", "U+2C72", "U+2C75", "U+2C7E", "U+2C7F", "U+2C80",
      "U+2C82", "U+2C84", "U+2C86", "U+2C88", "U+2C8A", "U+2C8C", "U+2C8E",
      "U+2C90", "U+2C92", "U+2C94", "U+2C96", "U+2C98", "U+2C9A", "U+2C9C",
      "U+2C9E", "U+2CA0", "U+2CA2", "U+2CA4", "U+2CA6", "U+2CA8", "U+2CAA",
      "U+2CAC", "U+2CAE", "U+2CB0", "U+2CB2", "U+2CB4", "U+2CB6", "U+2CB8",
      "U+2CBA", "U+2CBC", "U+2CBE", "U+2CC0", "U+2CC2", "U+2CC4", "U+2CC6",
      "U+2CC8", "U+2CCA", "U+2CCC", "U+2CCE", "U+2CD0", "U+2CD2", "U+2CD4",
      "U+2CD6", "U+2CD8", "U+2CDA", "U+2CDC", "U+2CDE", "U+2CE0", "U+2CE2",
      "U+2CEB", "U+2CED", "U+2CF2", "U+A640", "U+A642", "U+A644", "U+A646",
      "U+A648", "U+A64A", "U+A64C", "U+A64E", "U+A650", "U+A652", "U+A654",
      "U+A656", "U+A658", "U+A65A", "U+A65C", "U+A65E", "U+A660", "U+A662",
      "U+A664", "U+A666", "U+A668", "U+A66A", "U+A66C", "U+A680", "U+A682",
      "U+A684", "U+A686", "U+A688", "U+A68A", "U+A68C", "U+A68E", "U+A690",
      "U+A692", "U+A694", "U+A696", "U+A698", "U+A69A", "U+A722", "U+A724",
      "U+A726", "U+A728", "U+A72A", "U+A72C", "U+A72E", "U+A732", "U+A734",
      "U+A736", "U+A738", "U+A73A", "U+A73C", "U+A73E", "U+A740", "U+A742",
      "U+A744", "U+A746", "U+A748", "U+A74A", "U+A74C", "U+A74E", "U+A750",
      "U+A752", "U+A754", "U+A756", "U+A758", "U+A75A", "U+A75C", "U+A75E",
      "U+A760", "U+A762", "U+A764", "U+A766", "U+A768", "U+A76A", "U+A76C",
      "U+A76E", "U+A779", "U+A77B", "U+A77D", "U+A77E", "U+A780", "U+A782",
      "U+A784", "U+A786", "U+A78B", "U+A78D", "U+A790", "U+A792", "U+A796",
      "U+A798", "U+A79A", "U+A79C", "U+A79E", "U+A7A0", "U+A7A2", "U+A7A4",
      "U+A7A6", "U+A7A8", "U+A7AA", "U+A7AB", "U+A7AC", "U+A7AD", "U+A7AE",
      "U+A7B0", "U+A7B1", "U+A7B2", "U+A7B3", "U+A7B4", "U+A7B6", "U+A7B8",
      "U+A7BA", "U+A7BC", "U+A7BE", "U+A7C0", "U+A7C2", "U+A7C4", "U+A7C5",
      "U+A7C6", "U+A7C7", "U+A7C9", "U+A7D0", "U+A7D6", "U+A7D8", "U+A7F5",
      "U+FF21", "U+FF22", "U+FF23", "U+FF24", "U+FF25", "U+FF26", "U+FF27",
      "U+FF28", "U+FF29", "U+FF2A", "U+FF2B", "U+FF2C", "U+FF2D", "U+FF2E",
      "U+FF2F", "U+FF30", "U+FF31", "U+FF32", "U+FF33", "U+FF34", "U+FF35",
      "U+FF36", "U+FF37", "U+FF38", "U+FF39", "U+FF3A", "U+10400", "U+10401",
      "U+10402", "U+10403", "U+10404", "U+10405", "U+10406", "U+10407",
      "U+10408", "U+10409", "U+1040A", "U+1040B", "U+1040C", "U+1040D",
      "U+1040E", "U+1040F", "U+10410", "U+10411", "U+10412", "U+10413",
      "U+10414", "U+10415", "U+10416", "U+10417", "U+10418", "U+10419",
      "U+1041A", "U+1041B", "U+1041C", "U+1041D", "U+1041E", "U+1041F",
      "U+10420", "U+10421", "U+10422", "U+10423", "U+10424", "U+10425",
      "U+10426", "U+10427", "U+104B0", "U+104B1", "U+104B2", "U+104B3",
      "U+104B4", "U+104B5", "U+104B6", "U+104B7", "U+104B8", "U+104B9",
      "U+104BA", "U+104BB", "U+104BC", "U+104BD", "U+104BE", "U+104BF",
      "U+104C0", "U+104C1", "U+104C2", "U+104C3", "U+104C4", "U+104C5",
      "U+104C6", "U+104C7", "U+104C8", "U+104C9", "U+104CA", "U+104CB",
      "U+104CC", "U+104CD", "U+104CE", "U+104CF", "U+104D0", "U+104D1",
      "U+104D2", "U+104D3", "U+10570", "U+10571", "U+10572", "U+10573",
      "U+10574", "U+10575", "U+10576", "U+10577", "U+10578", "U+10579",
      "U+1057A", "U+1057C", "U+1057D", "U+1057E", "U+1057F", "U+10580",
      "U+10581", "U+10582", "U+10583", "U+10584", "U+10585", "U+10586",
      "U+10587", "U+10588", "U+10589", "U+1058A", "U+1058C", "U+1058D",
      "U+1058E", "U+1058F", "U+10590", "U+10591", "U+10592", "U+10594",
      "U+10595", "U+10C80", "U+10C81", "U+10C82", "U+10C83", "U+10C84",
      "U+10C85", "U+10C86", "U+10C87", "U+10C88", "U+10C89", "U+10C8A",
      "U+10C8B", "U+10C8C", "U+10C8D", "U+10C8E", "U+10C8F", "U+10C90",
      "U+10C91", "U+10C92", "U+10C93", "U+10C94", "U+10C95", "U+10C96",
      "U+10C97", "U+10C98", "U+10C99", "U+10C9A", "U+10C9B", "U+10C9C",
      "U+10C9D", "U+10C9E", "U+10C9F", "U+10CA0", "U+10CA1", "U+10CA2",
      "U+10CA3", "U+10CA4", "U+10CA5", "U+10CA6", "U+10CA7", "U+10CA8",
      "U+10CA9", "U+10CAA", "U+10CAB", "U+10CAC", "U+10CAD", "U+10CAE",
      "U+10CAF", "U+10CB0", "U+10CB1", "U+10CB2", "U+118A0", "U+118A1",
      "U+118A2", "U+118A3", "U+118A4", "U+118A5", "U+118A6", "U+118A7",
      "U+118A8", "U+118A9", "U+118AA", "U+118AB", "U+118AC", "U+118AD",
      "U+118AE", "U+118AF", "U+118B0", "U+118B1", "U+118B2", "U+118B3",
      "U+118B4", "U+118B5", "U+118B6", "U+118B7", "U+118B8", "U+118B9",
      "U+118BA", "U+118BB", "U+118BC", "U+118BD", "U+118BE", "U+118BF",
      "U+16E40", "U+16E41", "U+16E42", "U+16E43", "U+16E44", "U+16E45",
      "U+16E46", "U+16E47", "U+16E48", "U+16E49", "U+16E4A", "U+16E4B",
      "U+16E4C", "U+16E4D", "U+16E4E", "U+16E4F", "U+16E50", "U+16E51",
      "U+16E52", "U+16E53", "U+16E54", "U+16E55", "U+16E56", "U+16E57",
      "U+16E58", "U+16E59", "U+16E5A", "U+16E5B", "U+16E5C", "U+16E5D",
      "U+16E5E", "U+16E5F", "U+1E900", "U+1E901", "U+1E902", "U+1E903",
      "U+1E904", "U+1E905", "U+1E906", "U+1E907", "U+1E908", "U+1E909",
      "U+1E90A", "U+1E90B", "U+1E90C", "U+1E90D", "U+1E90E", "U+1E90F",
      "U+1E910", "U+1E911", "U+1E912", "U+1E913", "U+1E914", "U+1E915",
      "U+1E916", "U+1E917", "U+1E918", "U+1E919", "U+1E91A", "U+1E91B",
      "U+1E91C", "U+1E91D", "U+1E91E", "U+1E91F", "U+1E920", "U+1E921">>

\* the lower-case characters of UpperChars
LowerChars ==
    <<"a", "b", "c", "d", "e", "f", "g", "h", "i", "j", "k", "l", "m", "n",
      "o", "p", "q", "r", "s", "t", "u", "v", "w", "x", "y", "z", "U+00E0",
      "U+00E1", "U+00E2", "U+00E3", "U+00E4", "U+00E5", "U+00E6", "U+00E7",
      "U+00E8", "U+00E9", "U+00EA", "U+00EB", "U+00EC", "U+00ED", "U+00EE",
      "U+00EF", "U+00F0", "U+00F1", "U+00F2", "U+00F3", "U+00F4", "U+00F5",
      "U+00F6", "U+00F8", "U+00F9", "U+00FA", "U+00FB", "U+00FC", "U+00FD",
      "U+00FE", "U+0101", "U+0103", "U+0105", "U+0107", "U+0109", "U+010B",
      "U+010D", "U+010F", "U+0111", "U+0113", "U+0115", "U+0117", "U+0119",
      "U+011B", "U+011D", "U+011F", "U+0121", "U+0123", "U+0125", "U+0127",
      "U+0129", "U+012B", "U+012D", "U+012F", "i", "U+0133", "U+0135",
      "U+0137", "U+013A", "U+013C", "U+013E", "U+0140", "U+0142", "U+0144",
      "U+0146", "U+0148", "U+014B", "U+014D", "U+014F", "U+0151", "U+0153",
      "U+0155", "U+0157", "U+0159", "U+015B", "U+015D", "U+015F", "U+0161",
      "U+0163", "U+0165", "U+0167", "U+0169", "U+016B", "U+016D", "U+016F",
      "U+0171", "U+0173", "U+0175", "U+0177", "U+00FF", "U+017A", "U+017C",
      "U+017E", "U+0253", "U+0183", "U+0185", "U+0254", "U+0188", "U+0256",
      "U+0257", "U+018C", "U+01DD", "U+0259", "U+025B", "U+0192", "U+0260",
      "U+0263", "U+0269", "U+0268", "U+0199", "U+026F", "U+0272", "U+0275",
      "U+01A1", "U+01A3", "U+01A5", "U+0280", "U+01A8", "U+0283", "U+01AD",
      "U+0288", "U+01B0", "U+028A", "U+028B", "U+01B4", "U+01B6", "U+0292",
      "U+01B9", "U+01BD", "U+01C6", "U+01C6", "U+01C9", "U+01C9", "U+01CC",
      "U+01CC", "U+01CE", "U+01D0", "U+01D2", "U+01D4", "U+01D6", "U+01D8",
      "U+01DA", "U+01DC", "U+01DF", "U+01E1", "U+01E3", "U+01E5", "U+01E7",
      "U+01E9", "U+01EB", "U+01ED", "U+01EF", "U+01F3", "U+01F3", "U+01F5",
      "U+0195", "U+01BF", "U+01F9", "U+01FB", "U+01FD", "U+01FF", "U+0201",
      "U+0203", "U+0205", "U+0207", "U+0209", "U+020B", "U+020D", "U+020F",
      "U+0211", "U+0213", "U+0215", "U+0217", "U+0219", "U+021B", "U+021D",
      "U+021F", "U+019E", "U+0223", "U+0225", "U+0227", "U+0229", "U+022B",
      "U+022D", "U+022F", "U+0231", "U+0233", "U+2C65", "U+023C", "U+019A",
      "U+2C66", "U+0242", "U+0180", "U+0289", "U+028C", "U+0247", "U+0249",
      "U+024B", "U+024D", "U+024F", "U+0371", "U+0373", "U+0377", "U+03F3",
      "U+03AC", "U+03AD", "U+03AE", "U+03AF", "U+03CC", "U+03CD", "U+03CE",
      "U+03B1", "U+03B2", "U+03B3", "U+03B4", "U+03B5", "U+03B6", "U+03B7",
      "U+03B8", "U+03B9", "U+03BA", "U+03BB", "U+03BC", "U+03BD", "U+03BE",
      "U+03BF", "U+03C0", "U+03C1", "U+03C3", "U+03C4", "U+03C5", "U+03C6",
      "U+03C7", "U+03C8", "U+03C9", "U+03CA", "U+03CB", "U+03D7", "U+03D9",
      "U+03DB", "U+03DD", "U+03DF", "U+03E1", "U+03E3", "U+03E5", "U+03E7",
      "U+03E9", "U+03EB", "U+03ED", "U+03EF", "U+03B8", "U+03F8", "U+03F2",
      "U+03FB", "U+037B", "U+037C", "U+037D", "U+0450", "U+0451", "U+0452",
      "U+0453", "U+0454", "U+0455", "U+0456", "U+0457", "U+0458", "U+0459",
      "U+045A", "U+045B", "U+045C", "U+045D", "U+045E", "U+045F", "U+0430",
      "U+0431", "U+0432", "U+0433", "U+0434", "U+0435", "U+0436", "U+0437",
      "U+0438", "U+0439", "U+043A", "U+043B", "U+043C", "U+043D", "U+043E",
      "U+043F", "U+0440", "U+0441", "U+0442", "U+0443", "U+0444", "U+0445",
      "U+0446", "U+0447", "U+0448", "U+0449", "U+044A", "U+044B", "U+044C",
      "U+044D", "U+044E", "U+044F", "U+0461", "U+0463", "U+0465", "U+0467",
      "U+0469", "U+046B", "U+046D", "U+046F", "U+0471", "U+0473", "U+0475",
      "U+0477", "U+0479", "U+047B", "U+047D", "U+047F", "U+0481", "U+048B",
      "U+048D", "U+048F", "U+0491", "U+0493", "U+0495", "U+0497", "U+0499",
      "U+049B", "U+049D", "U+049F", "U+04A1", "U+04A3", "U+04A5", "U+04A7",
      "U+04A9", "U+04AB", "U+04AD", "U+04AF", "U+04B1", "U+04B3", "U+04B5",
      "U+04B7", "U+04B9", "U+04BB", "U+04BD", "U+04BF", "U+04CF", "U+04C2",
      "U+04C4", "U+04C6", "U+04C8", "U+04CA", "U+04CC", "U+04CE", "U+04D1",
      "U+04D3", "U+04D5", "U+04D7", "U+04D9", "U+04DB", "U+04DD", "U+04DF",
      "U+04E1", "U+04E3", "U+04E5", "U+04E7", "U+04E9", "U+04EB", "U+04ED",
      "U+04EF", "U+04F1", "U+04F3", "U+04F5", "U+04F7", "U+04F9", "U+04FB",
      "U+04FD", "U+04FF", "U+0501", "U+0503", "U+0505", "U+0507", "U+0509",
      "U+050B", "U+050D", "U+050F", "U+0511", "U+0513", "U+0515", "U+0517",
      "U+0519", "U+051B", "U+051D", "U+051F", "U+0521", "U+0523", "U+0525",
      "U+0527", "U+0529", "U+052B", "U+052D", "U+052F", "U+0561", "U+0562",
      "U+0563", "U+0564", "U+0565", "U+0566", "U+0567", "U+0568", "U+0569",
      "U+056A", "U+056B", "U+056C", "U+056D", "U+056E", "U+056F", "U+0570",
      "U+0571", "U+0572", "U+0573", "U+0574", "U+0575", "U+0576", "U+0577",
      "U+0578", "U+0579", "U+057A", "U+057B", "U+057C", "U+057D", "U+057E",
      "U+057F", "U+0580", "U+0581", "U+0582", "U+0583", "U+0584", "U+0585",
      "U+0586", "U+2D00", "U+2D01", "U+2D02", "U+2D03", "U+2D04", "U+2D05",
      "U+2D06", "U+2D07", "U+2D08", "U+2D09", "U+2D0A", "U+2D0B", "U+2D0C",
      "U+2D0D", "U+2D0E", "U+2D0F", "U+2D10", "U+2D11", "U+2D12", "U+2D13",
      "U+2D14", "U+2D15", "U+2D16", "U+2D17", "U+2D18", "U+2D19", "U+2D1A",
      "U+2D1B", "U+2D1C", "U+2D1D", "U+2D1E", "U+2D1F", "U+2D20", "U+2D21",
      "U+2D22", "U+2D23", "U+2D24", "U+2D25", "U+2D27", "U+2D2D", "U+AB70",
      "U+AB71", "U+AB72", "U+AB73", "U+AB74", "U+AB75", "U+AB76", "U+AB77",
      "U+AB78", "U+AB79", "U+AB7A", "U+AB7B", "U+AB7C", "U+AB7D", "U+AB7E",
      "U+AB7F", "U+AB80", "U+AB81", "U+AB82", "U+AB83", "U+AB84", "U+AB85",
      "U+AB86", "U+AB87", "U+AB88", "U+AB89", "U+AB8A", "U+AB8B", "U+AB8C",
      "U+AB8D", "U+AB8E", "U+AB8F", "U+AB90", "U+AB91", "U+AB92", "U+AB93",
      "U+AB94", "U+AB95", "U+AB96", "U+AB97", "U+AB98", "U+AB99", "U+AB9A",
      "U+AB9B", "U+AB9C", "U+AB9D", "U+AB9E", "U+AB9F", "U+ABA0", "U+ABA1",
      "U+ABA2", "U+ABA3", "U+ABA4", "U+ABA5", "U+ABA6", "U+ABA7", "U+ABA8",
      "U+ABA9", "U+ABAA", "U+ABAB", "U+ABAC", "U+ABAD", "U+ABAE", "U+ABAF",
      "U+ABB0", "U+ABB1", "U+ABB2", "U+ABB3", "U+ABB4", "U+ABB5", "U+ABB6",
      "U+ABB7", "U+ABB8", "U+ABB9", "U+ABBA", "U+ABBB", "U+ABBC", "U+ABBD",
      "U+ABBE", "U+ABBF", "U+13F8", "U+13F9", "U+13FA", "U+13FB", "U+13FC",
      "U+13FD", "U+10D0", "U+10D1", "U+10D2", "U+10D3", "U+10D4", "U+10D5",
      "U+10D6", "U+10D7", "U+10D8", "U+10D9", "U+10DA", "U+10DB", "U+10DC",
      "U+10DD", "U+10DE", "U+10DF", "U+10E0", "U+10E1", "U+10E2", "U+10E3",
      "U+10E4", "U+10E5", "U+10E6", "U+10E7", "U+10E8", "U+10E9", "U+10EA",
      "U+10EB", "U+10EC", "U+10ED", "U+10EE", "U+10EF", "U+10F0", "U+10F1",
      "U+10F2", "U+10F3", "U+10F4", "U+10F5", "U+10F6", "U+10F7", "U+10F8",
      "U+10F9", "U+10FA", "U+10FD", "U+10FE", "U+10FF", "U+1E01", "U+1E03",
      "U+1E05", "U+1E07", "U+1E09", "U+1E0B", "U+1E0D", "U+1E0F", "U+1E11",
      "U+1E13", "U+1E15", "U+1E17", "U+1E19", "U+1E1B", "U+1E1D", "U+1E1F",
      "U+1E21", "U+1E23", "U+1E25", "U+1E27", "U+1E29", "U+1E2B", "U+1E2D",
      "U+1E2F", "U+1E31", "U+1E33", "U+1E35", "U+1E37", "U+1E39", "U+1E3B",
      "U+1E3D", "U+1E3F", "U+1E41", "U+1E43", "U+1E45", "U+1E47", "U+1E49",
      "U+1E4B", "U+1E4D", "U+1E4F", "U+1E51", "U+1E53", "U+1E55", "U+1E57",
      "U+1E59", "U+1E5B", "U+1E5D", "U+1E5F", "U+1E61", "U+1E63", "U+1E65",
      "U+1E67", "U+1E69", "U+1E6B", "U+1E6D", "U+1E6F", "U+1E71", "U+1E73",
      "U+1E75", "U+1E77", "U+1E79", "U+1E7B", "U+1E7D", "U+1E7F", "U+1E81",
      "U+1E83", "U+1E85", "U+1E87", "U+1E89", "U+1E8B", "U+1E8D", "U+1E8F",
      "U+1E91", "U+1E93", "U+1E95", "U+00DF", "U+1EA1", "U+1EA3", "U+1EA5",
      "U+1EA7", "U+1EA9", "U+1EAB", "U+1EAD", "U+1EAF", "U+1EB1", "U+1EB3",
      "U+1EB5", "U+1EB7", "U+1EB9", "U+1EBB", "U+1EBD", "U+1EBF", "U+1EC1",
      "U+1EC3", "U+1EC5", "U+1EC7", "U+1EC9", "U+1ECB", "U+1ECD", "U+1ECF",
      "U+1ED1", "U+1ED3", "U+1ED5", "U+1ED7", "U+1ED9", "U+1EDB", "U+1EDD",
      "U+1EDF", "U+1EE1", "U+1EE3", "U+1EE5", "U+1EE7", "U+1EE9", "U+1EEB",
      "U+1EED", "U+1EEF", "U+1EF1", "U+1EF3", "U+1EF5", "U+1EF7", "U+1EF9",
      "U+1EFB", "U+1EFD", "U+1EFF", "U+1F00", "U+1F01", "U+1F02", "U+1F03",
      "U+1F04", "U+1F05", "U+1F06", "U+1F07", "U+1F10", "U+1F11", "U+1F12",
      "U+1F13", "U+1F14", "U+1F15", "U+1F20", "U+1F21", "U+1F22", "U+1F23",
      "U+1F24", "U+1F25", "U+1F26", "U+1F27", "U+1F30", "U+1F31", "U+1F32",
      "U+1F33", "U+1F34", "U+1F35", "U+1F36", "U+1F37", "U+1F40", "U+1F41",
      "U+1F42", "U+1F43", "U+1F44", "U+1F45", "U+1F51", "U+1F53", "U+1F55",
      "U+1F57", "U+1F60", "U+1F61", "U+1F62", "U+1F63", "U+1F64", "U+1F65",
      "U+1F66", "U+1F67", "U+1F80", "U+1F81", "U+1F82", "U+1F83", "U+1F84",
      "U+1F85", "U+1F86", "U+1F87", "U+1F90", "U+1F91", "U+1F92", "U+1F93",
      "U+1F94", "U+1F95", "U+1F96", "U+1F97", "U+1FA0", "U+1FA1", "U+1FA2",
      "U+1FA3", "U+1FA4", "U+1FA5", "U+1FA6", "U+1FA7", "U+1FB0", "U+1FB1",
      "U+1F70", "U+1F71", "U+1FB3", "U+1F72", "U+1F73", "U+1F74", "U+1F75",
      "U+1FC3", "U+1FD0", "U+1FD1", "U+1F76", "U+1F77", "U+1FE0", "U+1FE1",
      "U+1F7A", "U+1F7B", "U+1FE5", "U+1F78", "U+1F79", "U+1F7C", "U+1F7D",
      "U+1FF3", "U+03C9", "k", "U+00E5", "U+214E", "U+2170", "U+2171",
      "U+2172", "U+2173", "U+2174", "U+2175", "U+2176", "U+2177", "U+2178",
      "U+2179", "U+217A", "U+217B", "U+217C", "U+217D", "U+217E", "U+217F",
      "U+2184", "U+24D0", "U+24D1", "U+24D2", "U+24D3", "U+24D4", "U+24D5",
      "U+24D6", "U+24D7", "U+24D8", "U+24D9", "U+24DA", "U+24DB", "U+24DC",
      "U+24DD", "U+24DE", "U+24DF", "U+24E0", "U+24E1", "U+24E2", "U+24E3",
      "U+24E4", "U+24E5", "U+24E6", "U+24E7", "U+24E8", "U+24E9", "U+2C30",
      "U+2C31", "U+2C32", "U+2C33", "U+2C34", "U+2C35", "U+2C36", "U+2C37",
      "U+2C38", "U+2C39", "U+2C3A", "U+2C3B", "U+2C3C", "U+2C3D", "U+2C3E",
      "U+2C3F", "U+2C40", "U+2C41", "U+2C42", "U+2C43", "U+2C44", "U+2C45",
      "U+2C46", "U+2C47", "U+2C48", "U+2C49", "U+2C4A", "U+2C4B", "U+2C4C",
      "U+2C4D", "U+2C4E", "U+2C4F", "U+2C50", "U+2C51", "U+2C52", "U+2C53",
      "U+2C54", "U+2C55", "U+2C56", "U+2C57", "U+2C58", "U+2C59", "U+2C5A",
      "U+2C5B", "U+2C5C", "U+2C5D", "U+2C5E", "U+2C5F", "U+2C61", "U+026B",
      "U+1D7D", "U+027D", "U+2C68", "U+2C6A", "U+2C6C", "U+0251", "U+0271",
      "U+0250", "U+0252", "U+2C73", "U+2C76", "U+023F", "U+0240", "U+2C81",
      "U+2C83", "U+2C85", "U+2C87", "U+2C89", "U+2C8B", "U+2C8D", "U+2C8F",
      "U+2C91", "U+2C93", "U+2C95", "U+2C97", "U+2C99", "U+2C9B", "U+2C9D",
      "U+2C9F", "U+2CA1", "U+2CA3", "U+2CA5", "U+2CA7", "U+2CA9", "U+2CAB",
      "U+2CAD", "U+2CAF", "U+2CB1", "U+2CB3", "U+2CB5", "U+2CB7", "U+2CB9",
      "U+2CBB", "U+2CBD", "U+2CBF", "U+2CC1", "U+2CC3", "U+2CC5", "U+2CC7",
      "U+2CC9", "U+2CCB", "U+2CCD", "U+2CCF", "U+2CD1", "U+2CD3", "U+2CD5",
      "U+2CD7", "U+2CD9", "U+2CDB", "U+2CDD", "U+2CDF", "U+2CE1", "U+2CE3",
      "U+2CEC", "U+2CEE", "U+2CF3", "U+A641", "U+A643", "U+A645", "U+A647",
      "U+A649", "U+A64B", "U+A64D", "U+A64F", "U+A651", "U+A653", "U+A655",
      "U+A657", "U+A659", "U+A65B", "U+A65D", "U+A65F", "U+A661", "U+A663",
      "U+A665", "U+A667", "U+A669", "U+A66B", "U+A66D", "U+A681", "U+A683",
      "U+A685", "U+A687", "U+A689", "U+A68B", "U+A68D", "U+A68F", "U+A691",
      "U+A693", "U+A695", "U+A697", "U+A699", "U+A69B", "U+A723", "U+A725",
      "U+A727", "U+A729", "U+A72B", "U+A72D", "U+A72F", "U+A733", "U+A735",
      "U+A737", "U+A739", "U+A73B", "U+A73D", "U+A73F", "U+A741", "U+A743",
      "U+A745", "U+A747", "U+A749", "U+A74B", "U+A74D", "U+A74F", "U+A751",
      "U+A753", "U+A755", "U+A757", "U+A759", "U+A75B", "U+A75D", "U+A75F",
      "U+A761", "U+A763", "U+A765", "U+A767", "U+A769", "U+A76B", "U+A76D",
      "U+A76F", "U+A77A", "U+A77C", "U+1D79", "U+A77F", "U+A781", "U+A783",
      "U+A785", "U+A787", "U+A78C", "U+0265", "U+A791", "U+A793", "U+A797",
      "U+A799", "U+A79B", "U+A79D", "U+A79F", "U+A7A1", "U+A7A3", "U+A7A5",
      "U+A7A7", "U+A7A9", "U+0266", "U+025C", "U+0261", "U+026C", "U+026A",
      "U+029E", "U+0287", "U+029D", "U+AB53", "U+A7B5", "U+A7B7", "U+A7B9",
      "U+A7BB", "U+A7BD", "U+A7BF", "U+A7C1", "U+A7C3", "U+A794", "U+0282",
      "U+1D8E", "U+A7C8", "U+A7CA", "U+A7D1", "U+A7D7", "U+A7D9", "U+A7F6",
      "U+FF41", "U+FF42", "U+FF43", "U+FF44", "U+FF45", "U+FF46", "U+FF47",
      "U+FF48", "U+FF49", "U+FF4A", "U+FF4B", "U+FF4C", "U+FF4D", "U+FF4E",
      "U+FF4F", "U+FF50", "U+FF51", "U+FF52", "U+FF53", "U+FF54", "U+FF55",
      "U+FF56", "U+FF57", "U+FF58", "U+FF59", "U+FF5A", "U+10428", "U+10429",
      "U+1042A", "U+1042B", "U+1042C", "U+1042D", "U+1042E", "U+1042F",
      "U+10430", "U+10431", "U+10432", "U+10433", "U+10434", "U+10435",
      "U+10436", "U+10437", "U+10438", "U+10439", "U+1043A", "U+1043B",
      "U+1043C", "U+1043D", "U+1043E", "U+1043F", "U+10440", "U+10441",
      "U+10442", "U+10443", "U+10444", "U+10445", "U+10446", "U+10447",
      "U+10448", "U+10449", "U+1044A", "U+1044B", "U+1044C", "U+1044D",
      "U+1044E", "U+1044F", "U+104D8", "U+104D9", "U+104DA", "U+104DB",
      "U+104DC", "U+104DD", "U+104DE", "U+104DF", "U+104E0", "U+104E1",
      "U+104E2", "U+104E3", "U+104E4", "U+104E5", "U+104E6", "U+104E7",
      "U+104E8", "U+104E9", "U+104EA", "U+104EB", "U+104EC", "U+104ED",
      "U+104EE", "U+104EF", "U+104F0", "U+104F1", "U+104F2", "U+104F3",
      "U+104F4", "U+104F5", "U+104F6", "U+104F7", "U+104F8", "U+104F9",
      "U+104FA", "U+104FB", "U+10597", "U+10598", "U+10599", "U+1059A",
      "U+1059B", "U+1059C", "U+1059D", "U+1059E", "U+1059F", "U+105A0",
      "U+105A1", "U+105A3", "U+105A4", "U+105A5", "U+105A6", "U+105A7",
      "U+105A8", "U+105A9", "U+105AA", "U+105AB", "U+105AC", "U+105AD",
      "U+105AE", "U+105AF", "U+105B0", "U+105B1", "U+105B3", "U+105B4",
      "U+105B5", "U+105B6", "U+105B7", "U+105B8", "U+105B9", "U+105BB",
      "U+105BC", "U+10CC0", "U+10CC1", "U+10CC2", "U+10CC3", "U+10CC4",
      "U+10CC5", "U+10CC6", "U+10CC7", "U+10CC8", "U+10CC9", "U+10CCA",
      "U+10CCB", "U+10CCC", "U+10CCD", "U+10CCE", "U+10CCF", "U+10CD0",
      "U+10CD1", "U+10CD2", "U+10CD3", "U+10CD4", "U+10CD5", "U+10CD6",
      "U+10CD7", "U+10CD8", "U+10CD9", "U+10CDA", "U+10CDB", "U+10CDC",
      "U+10CDD", "U+10CDE", "U+10CDF", "U+10CE0", "U+10CE1", "U+10CE2",
      "U+10CE3", "U+10CE4", "U+10CE5", "U+10CE6", "U+10CE7", "U+10CE8",
      "U+10CE9", "U+10CEA", "U+10CEB", "U+10CEC", "U+10CED", "U+10CEE",
      "U+10CEF", "U+10CF0", "U+10CF1", "U+10CF2", "U+118C0", "U+118C1",
      "U+118C2", "U+118C3", "U+118C4", "U+118C5", "U+118C6", "U+118C7",
      "U+118C8", "U+118C9", "U+118CA", "U+118CB", "U+118CC", "U+118CD",
      "U+118CE", "U+118CF", "U+118D0", "U+118D1", "U+118D2", "U+118D3",
      "U+118D4", "U+118D5", "U+118D6", "U+118D7", "U+118D8", "U+118D9",
      "U+118DA", "U+118DB", "U+118DC", "U+118DD", "U+118DE", "U+118DF",
      "U+16E60", "U+16E61", "U+16E62", "U+16E63", "U+16E64", "U+16E65",
      "U+16E66", "U+16E67", "U+16E68", "U+16E69", "U+16E6A", "U+16E6B",
      "U+16E6C", "U+16E6D", "U+16E6E", "U+16E6F", "U+16E70", "U+16E71",
      "U+16E72", "U+16E73", "U+16E74", "U+16E75", "U+16E76", "U+16E77",
      "U+16E78", "U+16E79", "U+16E7A", "U+16E7B", "U+16E7C", "U+16E7D",
      "U+16E7E", "U+16E7F", "U+1E922", "U+1E923", "U+1E924", "U+1E925",
      "U+1E926", "U+1E927", "U+1E928", "U+1E929", "U+1E92A", "U+1E92B",
      "U+1E92C", "U+1E92D", "U+1E92E", "U+1E92F", "U+1E930", "U+1E931",
      "U+1E932", "U+1E933", "U+1E934", "U+1E935", "U+1E936", "U+1E937",
      "U+1E938", "U+1E939", "U+1E93A", "U+1E93B", "U+1E93C", "U+1E93D",
      "U+1E93E", "U+1E93F", "U+1E940", "U+1E941", "U+1E942", "U+1E943">>

\* re._casefix._EXTRA_CASES: lower-case characters that an IGNORECASE
\* pattern takes for one another; ExtraCaseTo names the first of each group.
ExtraCaseFrom ==
    <<"U+0131", "U+017F", "U+03B9", "U+03BC", "U+03C3", "U+03D0", "U+03D1",
      "U+03D5", "U+03D6", "U+03F0", "U+03F1", "U+03F5", "U+1C80", "U+1C81",
      "U+1C82", "U+1C83", "U+1C84", "U+1C85", "U+1C86", "U+1C87", "U+1E9B",
      "U+1FBE", "U+1FD3", "U+1FE3", "U+A64B", "U+FB06">>

\* the first character of the group of each of ExtraCaseFrom
ExtraCaseTo ==
    <<"i", "s", "U+0345", "U+00B5", "U+03C2", "U+03B2", "U+03B8", "U+03C6",
      "U+03C0", "U+03BA", "U+03C1", "U+03B5", "U+0432", "U+0434", "U+043E",
      "U+0441", "U+0442", "U+0442", "U+044A", "U+0463", "U+1E61", "U+0345",
      "U+0390", "U+03B0", "U+1C88", "U+FB05">>

\* The characters str.lower() passes over when it looks for the letters
\* around a capital sigma (Case_Ignorable).
CaseIgnorable ==
    {"'", ".", ":", "^", "U+0060", "U+00A8", "U+00AD", "U+00AF", "U+00B4",
      "U+00B7", "U+00B8", "U+02B0", "U+02B1", "U+02B2", "U+02B3", "U+02B4",
      "U+02B5", "U+02B6", "U+02B7", "U+02B8", "U+02B9", "U+02BA", "U+02BB",
      "U+02BC", "U+02BD", "U+02BE", "U+02BF", "U+02C0", "U+02C1", "U+02C2",
      "U+02C3", "U+02C4", "U+02C5", "U+02C6", "U+02C7", "U+02C8", "U+02C9",
      "U+02CA", "U+02CB", "U+02CC", "U+02CD", "U+02CE", "U+02CF", "U+02D0",
      "U+02D1", "U+02D2", "U+02D3", "U+02D4", "U+02D5", "U+02D6", "U+02D7",
      "U+02D8", "U+02D9", "U+02DA", "U+02DB", "U+02DC", "U+02DD", "U+02DE",
      "U+02DF", "U+02E0", "U+02E1", "U+02E2", "U+02E3", "U+02E4", "U+02E5",
      "U+02E6", "U+02E7", "U+02E8", "U+02E9", "U+02EA", "U+02EB", "U+02EC",
      "U+02ED", "U+02EE", "U+02EF", "U+02F0", "U+02F1", "U+02F2", "U+02F3",
      "U+02F4", "U+02F5", "U+02F6", "U+02F7", "U+02F8", "U+02F9", "U+02FA",
      "U+02FB", "U+02FC", "U+02FD", "U+02FE", "U+02FF", "U+0300", "U+0301",
      "U+0302", "U+0303", "U+0304", "U+0305", "U+0306", "U+0307", "U+0308",
      "U+0309", "U+030A", "U+030B", "U+030C", "U+030D", "U+030E", "U+030F",
      "U+0310", "U+0311", "U+0312", "U+0313", "U+0314", "U+0315", "U+0316",
      "U+0317", "U+0318", "U+0319", "U+031A", "U+031B", "U+031C", "U+031D",
      "U+031E", "U+031F", "U+0320", "U+0321", "U+0322", "U+0323", "U+0324",
      "U+0325", "U+0326", "U+0327", "U+0328", "U+0329", "U+032A", "U+032B",
      "U+032C", "U+032D", "U+032E", "U+032F", "U+0330", "U+0331", "U+0332",
      "U+0333", "U+0334", "U+0335", "U+0336", "U+0337", "U+0338", "U+0339",
      "U+033A", "U+033B", "U+033C", "U+033D", "U+033E", "U+033F", "U+0340",
      "U+0341", "U+0342", "U+0343", "U+0344", "U+0345", "U+0346", "U+0347",
      "U+0348", "U+0349", "U+034A", "U+034B", "U+034C", "U+034D", "U+034E",
      "U+034F", "U+0350", "U+0351", "U+0352", "U+0353", "U+0354", "U+0355",
      "U+0356", "U+0357", "U+0358", "U+0359", "U+035A", "U+035B", "U+035C",
      "U+035D", "U+035E", "U+035F", "U+0360", "U+0361", "U+0362", "U+0363",
      "U+0364", "U+0365", "U+0366", "U+0367", "U+0368", "U+0369", "U+036A",
      "U+036B", "U+036C", "U+036D", "U+036E", "U+036F", "U+0374", "U+0375",
      "U+037A", "U+0384", "U+0385", "U+0387", "U+0483", "U+0484", "U+0485",
      "U+0486", "U+0487", "U+0488", "U+0489", "U+0559", "U+055F", "U+0591",
      "U+0592", "U+0593", "U+0594", "U+0595", "U+0596", "U+0597", "U+0598",
      "U+0599", "U+059A", "U+059B", "U+059C", "U+059D", "U+059E", "U+059F",
      "U+05A0", "U+05A1", "U+05A2", "U+05A3", "U+05A4", "U+05A5", "U+05A6",
      "U+05A7", "U+05A8", "U+05A9", "U+05AA", "U+05AB", "U+05AC", "U+05AD",
      "U+05AE", "U+05AF", "U+05B0", "U+05B1", "U+05B2", "U+05B3", "U+05B4",
      "U+05B5", "U+05B6", "U+05B7", "U+05B8", "U+05B9", "U+05BA", "U+05BB",
      "U+05BC", "U+05BD", "U+05BF", "U+05C1", "U+05C2", "U+05C4", "U+05C5",
      "U+05C7", "U+05F4", "U+0600", "U+0601", "U+0602", "U+0603", "U+0604",
      "U+0605", "U+0610", "U+0611", "U+0612", "U+0613", "U+0614", "U+0615",
      "U+0616", "U+0617", "U+0618", "U+0619", "U+061A", "U+061C", "U+0640",
      "U+064B", "U+064C", "U+064D", "U+064E", "U+064F", "U+0650", "U+0651",
      "U+0652", "U+0653", "U+0654", "U+0655", "U+0656", "U+0657", "U+0658",
      "U+0659", "U+065A", "U+065B", "U+065C", "U+065D", "U+065E", "U+065F",
      "U+0670", "U+06D6", "U+06D7", "U+06D8", "U+06D9", "U+06DA", "U+06DB",
      "U+06DC", "U+06DD", "U+06DF", "U+06E0", "U+06E1", "U+06E2", "U+06E3",
      "U+06E4", "U+06E5", "U+06E6", "U+06E7", "U+06E8", "U+06EA", "U+06EB",
      "U+06EC", "U+06ED", "U+070F", "U+0711", "U+0730", "U+0731", "U+0732",
      "U+0733", "U+0734", "U+0735", "U+0736", "U+0737", "U+0738", "U+0739",
      "U+073A", "U+073B", "U+073C", "U+073D", "U+073E", "U+073F", "U+0740",
      "U+0741", "U+0742", "U+0743", "U+0744", "U+0745", "U+0746", "U+0747",
      "U+0748", "U+0749", "U+074A", "U+07A6", "U+07A7", "U+07A8", "U+07A9",
      "U+07AA", "U+07AB", "U+07AC", "U+07AD", "U+07AE", "U+07AF", "U+07B0",
      "U+07EB", "U+07EC", "U+07ED", "U+07EE", "U+07EF", "U+07F0", "U+07F1",
      "U+07F2", "U+07F3", "U+07F4", "U+07F5", "U+07FA", "U+07FD", "U+0816",
      "U+0817", "U+0818", "U+0819", "U+081A", "U+081B", "U+081C", "U+081D",
      "U+081E", "U+081F", "U+0820", "U+0821", "U+0822", "U+0823", "U+0824",
      "U+0825", "U+0826", "U+0827", "U+0828", "U+0829", "U+082A", "U+082B",
      "U+082C", "U+082D", "U+0859", "U+085A", "U+085B", "U+0888", "U+0890",
      "U+0891", "U+0898", "U+0899", "U+089A", "U+089B", "U+089C", "U+089D",
      "U+089E", "U+089F", "U+08C9", "U+08CA", "U+08CB", "U+08CC", "U+08CD",
      "U+08CE", "U+08CF", "U+08D0", "U+08D1", "U+08D2", "U+08D3", "U+08D4",
      "U+08D5", "U+08D6", "U+08D7", "U+08D8", "U+08D9", "U+08DA", "U+08DB",
      "U+08DC", "U+08DD", "U+08DE", "U+08DF", "U+08E0", "U+08E1", "U+08E2",
      "U+08E3", "U+08E4", "U+08E5", "U+08E6", "U+08E7", "U+08E8", "U+08E9",
      "U+08EA", "U+08EB", "U+08EC", "U+08ED", "U+08EE", "U+08EF", "U+08F0",
      "U+08F1", "U+08F2", "U+08F3", "U+08F4", "U+08F5", "U+08F6", "U+08F7",
      "U+08F8", "U+08F9", "U+08FA", "U+08FB", "U+08FC", "U+08FD", "U+08FE",
      "U+08FF", "U+0900", "U+0901", "U+0902", "U+093A", "U+093C", "U+0941",
      "U+0942", "U+0943", "U+0944", "U+0945", "U+0946", "U+0947", "U+0948",
      "U+094D", "U+0951", "U+0952", "U+0953", "U+0954", "U+0955", "U+0956",
      "U+0957", "U+0962", "U+0963", "U+0971", "U+0981", "U+09BC", "U+09C1",
      "U+09C2", "U+09C3", "U+09C4", "U+09CD", "U+09E2", "U+09E3", "U+09FE",
      "U+0A01", "U+0A02", "U+0A3C", "U+0A41", "U+0A42", "U+0A47", "U+0A48",
      "U+0A4B", "U+0A4C", "U+0A4D", "U+0A51", "U+0A70", "U+0A71", "U+0A75",
      "U+0A81", "U+0A82", "U+0ABC", "U+0AC1", "U+0AC2", "U+0AC3", "U+0AC4",
      "U+0AC5", "U+0AC7", "U+0AC8", "U+0ACD", "U+0AE2", "U+0AE3", "U+0AFA",
      "U+0AFB", "U+0AFC", "U+0AFD", "U+0AFE", "U+0AFF", "U+0B01", "U+0B3C",
      "U+0B3F", "U+0B41", "U+0B42", "U+0B43", "U+0B44", "U+0B4D", "U+0B55",
      "U+0B56", "U+0B62", "U+0B63", "U+0B82", "U+0BC0", "U+0BCD", "U+0C00",
      "U+0C04", "U+0C3C", "U+0C3E", "U+0C3F", "U+0C40", "U+0C46", "U+0C47",
      "U+0C48", "U+0C4A", "U+0C4B", "U+0C4C", "U+0C4D", "U+0C55", "U+0C56",
      "U+0C62", "U+0C63", "U+0C81", "U+0CBC", "U+0CBF", "U+0CC6", "U+0CCC",
      "U+0CCD", "U+0CE2", "U+0CE3", "U+0D00", "U+0D01", "U+0D3B", "U+0D3C",
      "U+0D41", "U+0D42", "U+0D43", "U+0D44", "U+0D4D", "U+0D62", "U+0D63",
      "U+0D81", "U+0DCA", "U+0DD2", "U+0DD3", "U+0DD4", "U+0DD6", "U+0E31",
      "U+0E34", "U+0E35", "U+0E36", "U+0E37", "U+0E38", "U+0E39", "U+0E3A",
      "U+0E46", "U+0E47", "U+0E48", "U+0E49", "U+0E4A", "U+0E4B", "U+0E4C",
      "U+0E4D", "U+0E4E", "U+0EB1", "U+0EB4", "U+0EB5", "U+0EB6", "U+0EB7",
      "U+0EB8", "U+0EB9", "U+0EBA", "U+0EBB", "U+0EBC", "U+0EC6", "U+0EC8",
      "U+0EC9", "U+0ECA", "U+0ECB", "U+0ECC", "U+0ECD", "U+0F18", "U+0F19",
      "U+0F35", "U+0F37", "U+0F39", "U+0F71", "U+0F72", "U+0F73", "U+0F74",
      "U+0F75", "U+0F76", "U+0F77", "U+0F78", "U+0F79", "U+0F7A", "U+0F7B",
      "U+0F7C", "U+0F7D", "U+0F7E", "U+0F80", "U+0F81", "U+0F82", "U+0F83",
      "U+0F84", "U+0F86", "U+0F87", "U+0F8D", "U+0F8E", "U+0F8F", "U+0F90",
      "U+0F91", "U+0F92", "U+0F93", "U+0F94", "U+0F95", "U+0F96", "U+0F97",
      "U+0F99", "U+0F9A", "U+0F9B", "U+0F9C", "U+0F9D", "U+0F9E", "U+0F9F",
      "U+0FA0", "U+0FA1", "U+0FA2", "U+0FA3", "U+0FA4", "U+0FA5", "U+0FA6",
      "U+0FA7", "U+0FA8", "U+0FA9", "U+0FAA", "U+0FAB", "U+0FAC", "U+0FAD",
      "U+0FAE", "U+0FAF", "U+0FB0", "U+0FB1", "U+0FB2", "U+0FB3", "U+0FB4",
      "U+0FB5", "U+0FB6", "U+0FB7", "U+0FB8", "U+0FB9", "U+0FBA", "U+0FBB",
      "U+0FBC", "U+0FC6", "U+102D", "U+102E", "U+102F", "U+1030", "U+1032",
      "U+1033", "U+1034", "U+1035", "U+1036", "U+1037", "U+1039", "U+103A",
      "U+103D", "U+103E", "U+1058", "U+1059", "U+105E", "U+105F", "U+1060",
      "U+1071", "U+1072", "U+1073", "U+1074", "U+1082", "U+1085", "U+1086",
      "U+108D", "U+109D", "U+10FC", "U+135D", "U+135E", "U+135F", "U+1712",
      "U+1713", "U+1714", "U+1732", "U+1733", "U+1752", "U+1753", "U+1772",
      "U+1773", "U+17B4", "U+17B5", "U+17B7", "U+17B8", "U+17B9", "U+17BA",
      "U+17BB", "U+17BC", "U+17BD", "U+17C6", "U+17C9", "U+17CA", "U+17CB",
      "U+17CC", "U+17CD", "U+17CE", "U+17CF", "U+17D0", "U+17D1", "U+17D2",
      "U+17D3", "U+17D7", "U+17DD", "U+180B", "U+180C", "U+180D", "U+180E",
      "U+180F", "U+1843", "U+1885", "U+1886", "U+18A9", "U+1920", "U+1921",
      "U+1922", "U+1927", "U+1928", "U+1932", "U+1939", "U+193A", "U+193B",
      "U+1A17", "U+1A18", "U+1A1B", "U+1A56", "U+1A58", "U+1A59", "U+1A5A",
      "U+1A5B", "U+1A5C", "U+1A5D", "U+1A5E", "U+1A60", "U+1A62", "U+1A65",
      "U+1A66", "U+1A67", "U+1A68", "U+1A69", "U+1A6A", "U+1A6B", "U+1A6C",
      "U+1A73", "U+1A74", "U+1A75", "U+1A76", "U+1A77", "U+1A78", "U+1A79",
      "U+1A7A", "U+1A7B", "U+1A7C", "U+1A7F", "U+1AA7", "U+1AB0", "U+1AB1",
      "U+1AB2", "U+1AB3", "U+1AB4", "U+1AB5", "U+1AB6", "U+1AB7", "U+1AB8",
      "U+1AB9", "U+1ABA", "U+1ABB", "U+1ABC", "U+1ABD", "U+1ABE", "U+1ABF",
      "U+1AC0", "U+1AC1", "U+1AC2", "U+1AC3", "U+1AC4", "U+1AC5", "U+1AC6",
      "U+1AC7", "U+1AC8", "U+1AC9", "U+1ACA", "U+1ACB", "U+1ACC", "U+1ACD",
      "U+1ACE", "U+1B00", "U+1B01", "U+1B02", "U+1B03", "U+1B34", "U+1B36",
      "U+1B37", "U+1B38", "U+1B39", "U+1B3A", "U+1B3C", "U+1B42", "U+1B6B",
      "U+1B6C", "U+1B6D", "U+1B6E", "U+1B6F", "U+1B70", "U+1B71", "U+1B72",
      "U+1B73", "U+1B80", "U+1B81", "U+1BA2", "U+1BA3", "U+1BA4", "U+1BA5",
      "U+1BA8", "U+1BA9", "U+1BAB", "U+1BAC", "U+1BAD", "U+1BE6", "U+1BE8",
      "U+1BE9", "U+1BED", "U+1BEF", "U+1BF0", "U+1BF1", "U+1C2C", "U+1C2D",
      "U+1C2E", "U+1C2F", "U+1C30", "U+1C31", "U+1C32", "U+1C33", "U+1C36",
      "U+1C37", "U+1C78", "U+1C79", "U+1C7A", "U+1C7B", "U+1C7C", "U+1C7D",
      "U+1CD0", "U+1CD1", "U+1CD2", "U+1CD4", "U+1CD5", "U+1CD6", "U+1CD7",
      "U+1CD8", "U+1CD9", "U+1CDA", "U+1CDB", "U+1CDC", "U+1CDD", "U+1CDE",
      "U+1CDF", "U+1CE0", "U+1CE2", "U+1CE3", "U+1CE4", "U+1CE5", "U+1CE6",
      "U+1CE7", "U+1CE8", "U+1CED", "U+1CF4", "U+1CF8", "U+1CF9", "U+1D2C",
      "U+1D2D", "U+1D2E", "U+1D2F", "U+1D30", "U+1D31", "U+1D32", "U+1D33",
      "U+1D34", "U+1D35", "U+1D36", "U+1D37", "U+1D38", "U+1D39", "U+1D3A",
      "U+1D3B", "U+1D3C", "U+1D3D", "U+1D3E", "U+1D3F", "U+1D40", "U+1D41",
      "U+1D42", "U+1D43", "U+1D44", "U+1D45", "U+1D46", "U+1D47", "U+1D48",
      "U+1D49", "U+1D4A", "U+1D4B", "U+1D4C", "U+1D4D", "U+1D4E", "U+1D4F",
      "U+1D50", "U+1D51", "U+1D52", "U+1D53", "U+1D54", "U+1D55", "U+1D56",
      "U+1D57", "U+1D58", "U+1D59", "U+1D5A", "U+1D5B", "U+1D5C", "U+1D5D",
      "U+1D5E", "U+1D5F", "U+1D60", "U+1D61", "U+1D62", "U+1D63", "U+1D64",
      "U+1D65", "U+1D66", "U+1D67", "U+1D68", "U+1D69", "U+1D6A", "U+1D78",
      "U+1D9B", "U+1D9C", "U+1D9D", "U+1D9E", "U+1D9F", "U+1DA0", "U+1DA1",
      "U+1DA2", "U+1DA3", "U+1DA4", "U+1DA5", "U+1DA6", "U+1DA7", "U+1DA8",
      "U+1DA9", "U+1DAA", "U+1DAB", "U+1DAC", "U+1DAD", "U+1DAE", "U+1DAF",
      "U+1DB0", "U+1DB1", "U+1DB2", "U+1DB3", "U+1DB4", "U+1DB5", "U+1DB6",
      "U+1DB7", "U+1DB8", "U+1DB9", "U+1DBA", "U+1DBB", "U+1DBC", "U+1DBD",
      "U+1DBE", "U+1DBF", "U+1DC0", "U+1DC1", "U+1DC2", "U+1DC3", "U+1DC4",
      "U+1DC5", "U+1DC6", "U+1DC7", "U+1DC8", "U+1DC9", "U+1DCA", "U+1DCB",
      "U+1DCC", "U+1DCD", "U+1DCE", "U+1DCF", "U+1DD0", "U+1DD1", "U+1DD2",
      "U+1DD3", "U+1DD4", "U+1DD5", "U+1DD6", "U+1DD7", "U+1DD8", "U+1DD9",
      "U+1DDA", "U+1DDB", "U+1DDC", "U+1DDD", "U+1DDE", "U+1DDF", "U+1DE0",
      "U+1DE1", "U+1DE2", "U+1DE3", "U+1DE4", "U+1DE5", "U+1DE6", "U+1DE7",
      "U+1DE8", "U+1DE9", "U+1DEA", "U+1DEB", "U+1DEC", "U+1DED", "U+1DEE",
      "U+1DEF", "U+1DF0", "U+1DF1", "U+1DF2", "U+1DF3", "U+1DF4", "U+1DF5",
      "U+1DF6", "U+1DF7", "U+1DF8", "U+1DF9", "U+1DFA", "U+1DFB", "U+1DFC",
      "U+1DFD", "U+1DFE", "U+1DFF", "U+1FBD", "U+1FBF", "U+1FC0", "U+1FC1",
      "U+1FCD", "U+1FCE", "U+1FCF", "U+1FDD", "U+1FDE", "U+1FDF", "U+1FED",
      "U+1FEE", "U+1FEF", "U+1FFD", "U+1FFE", "U+200B", "U+200C", "U+200D",
      "U+200E", "U+200F", "U+2018", "U+2019", "U+2024", "U+2027", "U+202A",
      "U+202B", "U+202C", "U+202D", "U+202E", "U+2060", "U+2061", "U+2062",
      "U+2063", "U+2064", "U+2066", "U+2067", "U+2068", "U+2069", "U+206A",
      "U+206B", "U+206C", "U+206D", "U+206E", "U+206F", "U+2071", "U+207F",
      "U+2090", "U+2091", "U+2092", "U+2093", "U+2094", "U+2095", "U+2096",
      "U+2097", "U+2098", "U+2099", "U+209A", "U+209B", "U+209C", "U+20D0",
      "U+20D1", "U+20D2", "U+20D3", "U+20D4", "U+20D5", "U+20D6", "U+20D7",
      "U+20D8", "U+20D9", "U+20DA", "U+20DB", "U+20DC", "U+20DD", "U+20DE",
      "U+20DF", "U+20E0", "U+20E1", "U+20E2", "U+20E3", "U+20E4", "U+20E5",
      "U+20E6", "U+20E7", "U+20E8", "U+20E9", "U+20EA", "U+20EB", "U+20EC",
      "U+20ED", "U+20EE", "U+20EF", "U+20F0", "U+2C7C", "U+2C7D", "U+2CEF",
      "U+2CF0", "U+2CF1", "U+2D6F", "U+2D7F", "U+2DE0", "U+2DE1", "U+2DE2",
      "U+2DE3", "U+2DE4", "U+2DE5", "U+2DE6", "U+2DE7", "U+2DE8", "U+2DE9",
      "U+2DEA", "U+2DEB", "U+2DEC", "U+2DED", "U+2DEE", "U+2DEF", "U+2DF0",
      "U+2DF1", "U+2DF2", "U+2DF3", "U+2DF4", "U+2DF5", "U+2DF6", "U+2DF7",
      "U+2DF8", "U+2DF9", "U+2DFA", "U+2DFB", "U+2DFC", "U+2DFD", "U+2DFE",
      "U+2DFF", "U+2E2F", "U+3005", "U+302A", "U+302B", "U+302C", "U+302D",
      "U+3031", "U+3032", "U+3033", "U+3034", "U+3035", "U+303B", "U+3099",
      "U+309A", "U+309B", "U+309C", "U+309D", "U+309E", "U+30FC", "U+30FD",
      "U+30FE", "U+A015", "U+A4F8", "U+A4F9", "U+A4FA", "U+A4FB", "U+A4FC",
      "U+A4FD", "U+A60C", "U+A66F", "U+A670", "U+A671", "U+A672", "U+A674",
      "U+A675", "U+A676", "U+A677", "U+A678", "U+A679", "U+A67A", "U+A67B",
      "U+A67C", "U+A67D", "U+A67F", "U+A69C", "U+A69D", "U+A69E", "U+A69F",
      "U+A6F0", "U+A6F1", "U+A700", "U+A701", "U+A702", "U+A703", "U+A704",
      "U+A705", "U+A706", "U+A707", "U+A708", "U+A709", "U+A70A", "U+A70B",
      "U+A70C", "U+A70D", "U+A70E", "U+A70F", "U+A710", "U+A711", "U+A712",
      "U+A713", "U+A714", "U+A715", "U+A716", "U+A717", "U+A718", "U+A719",
      "U+A71A", "U+A71B", "U+A71C", "U+A71D", "U+A71E", "U+A71F", "U+A720",
      "U+A721", "U+A770", "U+A788", "U+A789", "U+A78A", "U+A7F2", "U+A7F3",
      "U+A7F4", "U+A7F8", "U+A7F9", "U+A802", "U+A806", "U+A80B", "U+A825",
      "U+A826", "U+A82C", "U+A8C4", "U+A8C5", "U+A8E0", "U+A8E1", "U+A8E2",
      "U+A8E3", "U+A8E4", "U+A8E5", "U+A8E6", "U+A8E7", "U+A8E8", "U+A8E9",
      "U+A8EA", "U+A8EB", "U+A8EC", "U+A8ED", "U+A8EE", "U+A8EF", "U+A8F0",
      "U+A8F1", "U+A8FF", "U+A926", "U+A927", "U+A928", "U+A929", "U+A92A",
      "U+A92B", "U+A92C", "U+A92D", "U+A947", "U+A948", "U+A949", "U+A94A",
      "U+A94B", "U+A94C", "U+A94D", "U+A94E", "U+A94F", "U+A950", "U+A951",
      "U+A980", "U+A981", "U+A982", "U+A9B3", "U+A9B6", "U+A9B7", "U+A9B8",
      "U+A9B9", "U+A9BC", "U+A9BD", "U+A9CF", "U+A9E5", "U+A9E6", "U+AA29",
      "U+AA2A", "U+AA2B", "U+AA2C", "U+AA2D", "U+AA2E", "U+AA31", "U+AA32",
      "U+AA35", "U+AA36", "U+AA43", "U+AA4C", "U+AA70", "U+AA7C", "U+AAB0",
      "U+AAB2", "U+AAB3", "U+AAB4", "U+AAB7", "U+AAB8", "U+AABE", "U+AABF",
      "U+AAC1", "U+AADD", "U+AAEC", "U+AAED", "U+AAF3", "U+AAF4", "U+AAF6",
      "U+AB5B", "U+AB5C", "U+AB5D", "U+AB5E", "U+AB5F", "U+AB69", "U+AB6A",
      "U+AB6B", "U+ABE5", "U+ABE8", "U+ABED", "U+FB1E", "U+FBB2", "U+FBB3",
      "U+FBB4", "U+FBB5", "U+FBB6", "U+FBB7", "U+FBB8", "U+FBB9", "U+FBBA",
      "U+FBBB", "U+FBBC", "U+FBBD", "U+FBBE", "U+FBBF", "U+FBC0", "U+FBC1",
      "U+FBC2", "U+FE00", "U+FE01", "U+FE02", "U+FE03", "U+FE04", "U+FE05",
      "U+FE06", "U+FE07", "U+FE08", "U+FE09", "U+FE0A", "U+FE0B", "U+FE0C",
      "U+FE0D", "U+FE0E", "U+FE0F", "U+FE13", "U+FE20", "U+FE21", "U+FE22",
      "U+FE23", "U+FE24", "U+FE25", "U+FE26", "U+FE27", "U+FE28", "U+FE29",
      "U+FE2A", "U+FE2B", "U+FE2C", "U+FE2D", "U+FE2E", "U+FE2F", "U+FE52",
      "U+FE55", "U+FEFF", "U+FF07", "U+FF0E", "U+FF1A", "U+FF3E", "U+FF40",
      "U+FF70", "U+FF9E", "U+FF9F", "U+FFE3", "U+FFF9", "U+FFFA", "U+FFFB",
      "U+101FD", "U+102E0", "U+10376", "U+10377", "U+10378", "U+10379",
      "U+1037A", "U+10780", "U+10781", "U+10782", "U+10783", "U+10784",
      "U+10785", "U+10787", "U+10788", "U+10789", "U+1078A", "U+1078B",
      "U+1078C", "U+1078D", "U+1078E", "U+1078F", "U+10790", "U+10791",
      "U+10792", "U+10793", "U+10794", "U+10795", "U+10796", "U+10797",
      "U+10798", "U+10799", "U+1079A", "U+1079B", "U+1079C", "U+1079D",
      "U+1079E", "U+1079F", "U+107A0", "U+107A1", "U+107A2", "U+107A3",
      "U+107A4", "U+107A5", "U+107A6", "U+107A7", "U+107A8", "U+107A9",
      "U+107AA", "U+107AB", "U+107AC", "U+107AD", "U+107AE", "U+107AF",
      "U+107B0", "U+107B2", "U+107B3", "U+107B4", "U+107B5", "U+107B6",
      "U+107B7", "U+107B8", "U+107B9", "U+107BA", "U+10A01", "U+10A02",
      "U+10A03", "U+10A05", "U+10A06", "U+10A0C", "U+10A0D", "U+10A0E",
      "U+10A0F", "U+10A38", "U+10A39", "U+10A3A", "U+10A3F", "U+10AE5",
      "U+10AE6", "U+10D24", "U+10D25", "U+10D26", "U+10D27", "U+10EAB",
      "U+10EAC", "U+10F46", "U+10F47", "U+10F48", "U+10F49", "U+10F4A",
      "U+10F4B", "U+10F4C", "U+10F4D", "U+10F4E", "U+10F4F", "U+10F50",
      "U+10F82", "U+10F83", "U+10F84", "U+10F85", "U+11001", "U+11038",
      "U+11039", "U+1103A", "U+1103B", "U+1103C", "U+1103D", "U+1103E",
      "U+1103F", "U+11040", "U+11041", "U+11042", "U+11043", "U+11044",
      "U+11045", "U+11046", "U+11070", "U+11073", "U+11074", "U+1107F",
      "U+11080", "U+11081", "U+110B3", "U+110B4", "U+110B5", "U+110B6",
      "U+110B9", "U+110BA", "U+110BD", "U+110C2", "U+110CD", "U+11100",
      "U+11101", "U+11102", "U+11127", "U+11128", "U+11129", "U+1112A",
      "U+1112B", "U+1112D", "U+1112E", "U+1112F", "U+11130", "U+11131",
      "U+11132", "U+11133", "U+11134", "U+11173", "U+11180", "U+11181",
      "U+111B6", "U+111B7", "U+111B8", "U+111B9", "U+111BA", "U+111BB",
      "U+111BC", "U+111BD", "U+111BE", "U+111C9", "U+111CA", "U+111CB",
      "U+111CC", "U+111CF", "U+1122F", "U+11230", "U+11231", "U+11234",
      "U+11236", "U+11237", "U+1123E", "U+112DF", "U+112E3", "U+112E4",
      "U+112E5", "U+112E6", "U+112E7", "U+112E8", "U+112E9", "U+112EA",
      "U+11300", "U+11301", "U+1133B", "U+1133C", "U+11340", "U+11366",
      "U+11367", "U+11368", "U+11369", "U+1136A", "U+1136B", "U+1136C",
      "U+11370", "U+11371", "U+11372", "U+11373", "U+11374", "U+11438",
      "U+11439", "U+1143A", "U+1143B", "U+1143C", "U+1143D", "U+1143E",
      "U+1143F", "U+11442", "U+11443", "U+11444", "U+11446", "U+1145E",
      "U+114B3", "U+114B4", "U+114B5", "U+114B6", "U+114B7", "U+114B8",
      "U+114BA", "U+114BF", "U+114C0", "U+114C2", "U+114C3", "U+115B2",
      "U+115B3", "U+115B4", "U+115B5", "U+115BC", "U+115BD", "U+115BF",
      "U+115C0", "U+115DC", "U+115DD", "U+11633", "U+11634", "U+11635",
      "U+11636", "U+11637", "U+11638", "U+11639", "U+1163A", "U+1163D",
      "U+1163F", "U+11640", "U+116AB", "U+116AD", "U+116B0", "U+116B1",
      "U+116B2", "U+116B3", "U+116B4", "U+116B5", "U+116B7", "U+1171D",
      "U+1171E", "U+1171F", "U+11722", "U+11723", "U+11724", "U+11725",
      "U+11727", "U+11728", "U+11729", "U+1172A", "U+1172B", "U+1182F",
      "U+11830", "U+11831", "U+11832", "U+11833", "U+11834", "U+11835",
      "U+11836", "U+11837", "U+11839", "U+1183A", "U+1193B", "U+1193C",
      "U+1193E", "U+11943", "U+119D4", "U+119D5", "U+119D6", "U+119D7",
      "U+119DA", "U+119DB", "U+119E0", "U+11A01", "U+11A02", "U+11A03",
      "U+11A04", "U+11A05", "U+11A06", "U+11A07", "U+11A08", "U+11A09",
      "U+11A0A", "U+11A33", "U+11A34", "U+11A35", "U+11A36", "U+11A37",
      "U+11A38", "U+11A3B", "U+11A3C", "U+11A3D", "U+11A3E", "U+11A47",
      "U+11A51", "U+11A52", "U+11A53", "U+11A54", "U+11A55", "U+11A56",
      "U+11A59", "U+11A5A", "U+11A5B", "U+11A8A", "U+11A8B", "U+11A8C",
      "U+11A8D", "U+11A8E", "U+11A8F", "U+11A90", "U+11A91", "U+11A92",
      "U+11A93", "U+11A94", "U+11A95", "U+11A96", "U+11A98", "U+11A99",
      "U+11C30", "U+11C31", "U+11C32", "U+11C33", "U+11C34", "U+11C35",
      "U+11C36", "U+11C38", "U+11C39", "U+11C3A", "U+11C3B", "U+11C3C",
      "U+11C3D", "U+11C3F", "U+11C92", "U+11C93", "U+11C94", "U+11C95",
      "U+11C96", "U+11C97", "U+11C98", "U+11C99", "U+11C9A", "U+11C9B",
      "U+11C9C", "U+11C9D", "U+11C9E", "U+11C9F", "U+11CA0", "U+11CA1",
      "U+11CA2", "U+11CA3", "U+11CA4", "U+11CA5", "U+11CA6", "U+11CA7",
      "U+11CAA", "U+11CAB", "U+11CAC", "U+11CAD", "U+11CAE", "U+11CAF",
      "U+11CB0", "U+11CB2", "U+11CB3", "U+11CB5", "U+11CB6", "U+11D31",
      "U+11D32", "U+11D33", "U+11D34", "U+11D35", "U+11D36", "U+11D3A",
      "U+11D3C", "U+11D3D", "U+11D3F", "U+11D40", "U+11D41", "U+11D42",
      "U+11D43", "U+11D44", "U+11D45", "U+11D47", "U+11D90", "U+11D91",
      "U+11D95", "U+11D97", "U+11EF3", "U+11EF4", "U+13430", "U+13431",
      "U+13432", "U+13433", "U+13434", "U+13435", "U+13436", "U+13437",
      "U+13438", "U+16AF0", "U+16AF1", "U+16AF2", "U+16AF3", "U+16AF4",
      "U+16B30", "U+16B31", "U+16B32", "U+16B33", "U+16B34", "U+16B35",
      "U+16B36", "U+16B40", "U+16B41", "U+16B42", "U+16B43", "U+16F4F",
      "U+16F8F", "U+16F90", "U+16F91", "U+16F92", "U+16F93", "U+16F94",
      "U+16F95", "U+16F96", "U+16F97", "U+16F98", "U+16F99", "U+16F9A",
      "U+16F9B", "U+16F9C", "U+16F9D", "U+16F9E", "U+16F9F", "U+16FE0",
      "U+16FE1", "U+16FE3", "U+16FE4", "U+1AFF0", "U+1AFF1", "U+1AFF2",
      "U+1AFF3", "U+1AFF5", "U+1AFF6", "U+1AFF7", "U+1AFF8", "U+1AFF9",
      "U+1AFFA", "U+1AFFB", "U+1AFFD", "U+1AFFE", "U+1BC9D", "U+1BC9E",
      "U+1BCA0", "U+1BCA1", "U+1BCA2", "U+1BCA3", "U+1CF00", "U+1CF01",
      "U+1CF02", "U+1CF03", "U+1CF04", "U+1CF05", "U+1CF06", "U+1CF07",
      "U+1CF08", "U+1CF09", "U+1CF0A", "U+1CF0B", "U+1CF0C", "U+1CF0D",
      "U+1CF0E", "U+1CF0F", "U+1CF10", "U+1CF11", "U+1CF12", "U+1CF13",
      "U+1CF14", "U+1CF15", "U+1CF16", "U+1CF17", "U+1CF18", "U+1CF19",
      "U+1CF1A", "U+1CF1B", "U+1CF1C", "U+1CF1D", "U+1CF1E", "U+1CF1F",
      "U+1CF20", "U+1CF21", "U+1CF22", "U+1CF23", "U+1CF24", "U+1CF25",
      "U+1CF26", "U+1CF27", "U+1CF28", "U+1CF29", "U+1CF2A", "U+1CF2B",
      "U+1CF2C", "U+1CF2D", "U+1CF30", "U+1CF31", "U+1CF32", "U+1CF33",
      "U+1CF34", "U+1CF35", "U+1CF36", "U+1CF37", "U+1CF38", "U+1CF39",
      "U+1CF3A", "U+1CF3B", "U+1CF3C", "U+1CF3D", "U+1CF3E", "U+1CF3F",
      "U+1CF40", "U+1CF41", "U+1CF42", "U+1CF43", "U+1CF44", "U+1CF45",
      "U+1CF46", "U+1D167", "U+1D168", "U+1D169", "U+1D173", "U+1D174",
      "U+1D175", "U+1D176", "U+1D177", "U+1D178", "U+1D179", "U+1D17A",
      "U+1D17B", "U+1D17C", "U+1D17D", "U+1D17E", "U+1D17F", "U+1D180",
      "U+1D181", "U+1D182", "U+1D185", "U+1D186", "U+1D187", "U+1D188",
      "U+1D189", "U+1D18A", "U+1D18B", "U+1D1AA", "U+1D1AB", "U+1D1AC",
      "U+1D1AD", "U+1D242", "U+1D243", "U+1D244", "U+1DA00", "U+1DA01",
      "U+1DA02", "U+1DA03", "U+1DA04", "U+1DA05", "U+1DA06", "U+1DA07",
      "U+1DA08", "U+1DA09", "U+1DA0A", "U+1DA0B", "U+1DA0C", "U+1DA0D",
      "U+1DA0E", "U+1DA0F", "U+1DA10", "U+1DA11", "U+1DA12", "U+1DA13",
      "U+1DA14", "U+1DA15", "U+1DA16", "U+1DA17", "U+1DA18", "U+1DA19",
      "U+1DA1A", "U+1DA1B", "U+1DA1C", "U+1DA1D", "U+1DA1E", "U+1DA1F",
      "U+1DA20", "U+1DA21", "U+1DA22", "U+1DA23", "U+1DA24", "U+1DA25",
      "U+1DA26", "U+1DA27", "U+1DA28", "U+1DA29", "U+1DA2A", "U+1DA2B",
      "U+1DA2C", "U+1DA2D", "U+1DA2E", "U+1DA2F", "U+1DA30", "U+1DA31",
      "U+1DA32", "U+1DA33", "U+1DA34", "U+1DA35", "U+1DA36", "U+1DA3B",
      "U+1DA3C", "U+1DA3D", "U+1DA3E", "U+1DA3F", "U+1DA40", "U+1DA41",
      "U+1DA42", "U+1DA43", "U+1DA44", "U+1DA45", "U+1DA46", "U+1DA47",
      "U+1DA48", "U+1DA49", "U+1DA4A", "U+1DA4B", "U+1DA4C", "U+1DA4D",
      "U+1DA4E", "U+1DA4F", "U+1DA50", "U+1DA51", "U+1DA52", "U+1DA53",
      "U+1DA54", "U+1DA55", "U+1DA56", "U+1DA57", "U+1DA58", "U+1DA59",
      "U+1DA5A", "U+1DA5B", "U+1DA5C", "U+1DA5D", "U+1DA5E", "U+1DA5F",
      "U+1DA60", "U+1DA61", "U+1DA62", "U+1DA63", "U+1DA64", "U+1DA65",
      "U+1DA66", "U+1DA67", "U+1DA68", "U+1DA69", "U+1DA6A", "U+1DA6B",
      "U+1DA6C", "U+1DA75", "U+1DA84", "U+1DA9B", "U+1DA9C", "U+1DA9D",
      "U+1DA9E", "U+1DA9F", "U+1DAA1", "U+1DAA2", "U+1DAA3", "U+1DAA4",
      "U+1DAA5", "U+1DAA6", "U+1DAA7", "U+1DAA8", "U+1DAA9", "U+1DAAA",
      "U+1DAAB", "U+1DAAC", "U+1DAAD", "U+1DAAE", "U+1DAAF", "U+1E000",
      "U+1E001", "U+1E002", "U+1E003", "U+1E004", "U+1E005", "U+1E006",
      "U+1E008", "U+1E009", "U+1E00A", "U+1E00B", "U+1E00C", "U+1E00D",
      "U+1E00E", "U+1E00F", "U+1E010", "U+1E011", "U+1E012", "U+1E013",
      "U+1E014", "U+1E015", "U+1E016", "U+1E017", "U+1E018", "U+1E01B",
      "U+1E01C", "U+1E01D", "U+1E01E", "U+1E01F", "U+1E020", "U+1E021",
      "U+1E023", "U+1E024", "U+1E026", "U+1E027", "U+1E028", "U+1E029",
      "U+1E02A", "U+1E130", "U+1E131", "U+1E132", "U+1E133", "U+1E134",
      "U+1E135", "U+1E136", "U+1E137", "U+1E138", "U+1E139", "U+1E13A",
      "U+1E13B", "U+1E13C", "U+1E13D", "U+1E2AE", "U+1E2EC", "U+1E2ED",
      "U+1E2EE", "U+1E2EF", "U+1E8D0", "U+1E8D1", "U+1E8D2", "U+1E8D3",
      "U+1E8D4", "U+1E8D5", "U+1E8D6", "U+1E944", "U+1E945", "U+1E946",
      "U+1E947", "U+1E948", "U+1E949", "U+1E94A", "U+1E94B", "U+1F3FB",
      "U+1F3FC", "U+1F3FD", "U+1F3FE", "U+1F3FF", "U+E0001", "U+E0020",
      "U+E0021", "U+E0022", "U+E0023", "U+E0024", "U+E0025", "U+E0026",
      "U+E0027", "U+E0028", "U+E0029", "U+E002A", "U+E002B", "U+E002C",
      "U+E002D", "U+E002E", "U+E002F", "U+E0030", "U+E0031", "U+E0032",
      "U+E0033", "U+E0034", "U+E0035", "U+E0036", "U+E0037", "U+E0038",
      "U+E0039", "U+E003A", "U+E003B", "U+E003C", "U+E003D", "U+E003E",
      "U+E003F", "U+E0040", "U+E0041", "U+E0042", "U+E0043", "U+E0044",
      "U+E0045", "U+E0046", "U+E0047", "U+E0048", "U+E0049", "U+E004A",
      "U+E004B", "U+E004C", "U+E004D", "U+E004E", "U+E004F", "U+E0050",
      "U+E0051", "U+E0052", "U+E0053", "U+E0054", "U+E0055", "U+E0056",
      "U+E0057", "U+E0058", "U+E0059", "U+E005A", "U+E005B", "U+E005C",
      "U+E005D", "U+E005E", "U+E005F", "U+E0060", "U+E0061", "U+E0062",
      "U+E0063", "U+E0064", "U+E0065", "U+E0066", "U+E0067", "U+E0068",
      "U+E0069", "U+E006A", "U+E006B", "U+E006C", "U+E006D", "U+E006E",
      "U+E006F", "U+E0070", "U+E0071", "U+E0072", "U+E0073", "U+E0074",
      "U+E0075", "U+E0076", "U+E0077", "U+E0078", "U+E0079", "U+E007A",
      "U+E007B", "U+E007C", "U+E007D", "U+E007E", "U+E007F", "U+E0100",
      "U+E0101", "U+E0102", "U+E0103", "U+E0104", "U+E0105", "U+E0106",
      "U+E0107", "U+E0108", "U+E0109", "U+E010A", "U+E010B", "U+E010C",
      "U+E010D", "U+E010E", "U+E010F", "U+E0110", "U+E0111", "U+E0112",
      "U+E0113", "U+E0114", "U+E0115", "U+E0116", "U+E0117", "U+E0118",
      "U+E0119", "U+E011A", "U+E011B", "U+E011C", "U+E011D", "U+E011E",
      "U+E011F", "U+E0120", "U+E0121", "U+E0122", "U+E0123", "U+E0124",
      "U+E0125", "U+E0126", "U+E0127", "U+E0128", "U+E0129", "U+E012A",
      "U+E012B", "U+E012C", "U+E012D", "U+E012E", "U+E012F", "U+E0130",
      "U+E0131", "U+E0132", "U+E0133", "U+E0134", "U+E0135", "U+E0136",
      "U+E0137", "U+E0138", "U+E0139", "U+E013A", "U+E013B", "U+E013C",
      "U+E013D", "U+E013E", "U+E013F", "U+E0140", "U+E0141", "U+E0142",
      "U+E0143", "U+E0144", "U+E0145", "U+E0146", "U+E0147", "U+E0148",
      "U+E0149", "U+E014A", "U+E014B", "U+E014C", "U+E014D", "U+E014E",
      "U+E014F", "U+E0150", "U+E0151", "U+E0152", "U+E0153", "U+E0154",
      "U+E0155", "U+E0156", "U+E0157", "U+E0158", "U+E0159", "U+E015A",
      "U+E015B", "U+E015C", "U+E015D", "U+E015E", "U+E015F", "U+E0160",
      "U+E0161", "U+E0162", "U+E0163", "U+E0164", "U+E0165", "U+E0166",
      "U+E0167", "U+E0168", "U+E0169", "U+E016A", "U+E016B", "U+E016C",
      "U+E016D", "U+E016E", "U+E016F", "U+E0170", "U+E0171", "U+E0172",
      "U+E0173", "U+E0174", "U+E0175", "U+E0176", "U+E0177", "U+E0178",
      "U+E0179", "U+E017A", "U+E017B", "U+E017C", "U+E017D", "U+E017E",
      "U+E017F", "U+E0180", "U+E0181", "U+E0182", "U+E0183", "U+E0184",
      "U+E0185", "U+E0186", "U+E0187", "U+E0188", "U+E0189", "U+E018A",
      "U+E018B", "U+E018C", "U+E018D", "U+E018E", "U+E018F", "U+E0190",
      "U+E0191", "U+E0192", "U+E0193", "U+E0194", "U+E0195", "U+E0196",
      "U+E0197", "U+E0198", "U+E0199", "U+E019A", "U+E019B", "U+E019C",
      "U+E019D", "U+E019E", "U+E019F", "U+E01A0", "U+E01A1", "U+E01A2",
      "U+E01A3", "U+E01A4", "U+E01A5", "U+E01A6", "U+E01A7", "U+E01A8",
      "U+E01A9", "U+E01AA", "U+E01AB", "U+E01AC", "U+E01AD", "U+E01AE",
      "U+E01AF", "U+E01B0", "U+E01B1", "U+E01B2", "U+E01B3", "U+E01B4",
      "U+E01B5", "U+E01B6", "U+E01B7", "U+E01B8", "U+E01B9", "U+E01BA",
      "U+E01BB", "U+E01BC", "U+E01BD", "U+E01BE", "U+E01BF", "U+E01C0",
      "U+E01C1", "U+E01C2", "U+E01C3", "U+E01C4", "U+E01C5", "U+E01C6",
      "U+E01C7", "U+E01C8", "U+E01C9", "U+E01CA", "U+E01CB", "U+E01CC",
      "U+E01CD", "U+E01CE", "U+E01CF", "U+E01D0", "U+E01D1", "U+E01D2",
      "U+E01D3", "U+E01D4", "U+E01D5", "U+E01D6", "U+E01D7", "U+E01D8",
      "U+E01D9", "U+E01DA", "U+E01DB", "U+E01DC", "U+E01DD", "U+E01DE",
      "U+E01DF", "U+E01E0", "U+E01E1", "U+E01E2", "U+E01E3", "U+E01E4",
      "U+E01E5", "U+E01E6", "U+E01E7", "U+E01E8", "U+E01E9", "U+E01EA",
      "U+E01EB", "U+E01EC", "U+E01ED", "U+E01EE", "U+E01EF"}

\* The characters that are cased and not case-ignorable.
CasedLetters ==
    {"A", "B", "C", "D", "E", "F", "G", "H", "I", "J", "K", "L", "M", "N",
      "O", "P", "Q", "R", "S", "T", "U", "V", "W", "X", "Y", "Z", "a", "b",
      "c", "d", "e", "f", "g", "h", "i", "j", "k", "l", "m", "n", "o", "p",
      "q", "r", "s", "t", "u", "v", "w", "x", "y", "z", "U+00AA", "U+00B5",
      "U+00BA", "U+00C0", "U+00C1", "U+00C2", "U+00C3", "U+00C4", "U+00C5",
      "U+00C6", "U+00C7", "U+00C8", "U+00C9", "U+00CA", "U+00CB", "U+00CC",
      "U+00CD", "U+00CE", "U+00CF", "U+00D0", "U+00D1", "U+00D2", "U+00D3",
      "U+00D4", "U+00D5", "U+00D6", "U+00D8", "U+00D9", "U+00DA", "U+00DB",
      "U+00DC", "U+00DD", "U+00DE", "U+00DF", "U+00E0", "U+00E1", "U+00E2",
      "U+00E3", "U+00E4", "U+00E5", "U+00E6", "U+00E7", "U+00E8", "U+00E9",
      "U+00EA", "U+00EB", "U+00EC", "U+00ED", "U+00EE", "U+00EF", "U+00F0",
      "U+00F1", "U+00F2", "U+00F3", "U+00F4", "U+00F5", "U+00F6", "U+00F8",
      "U+00F9", "U+00FA", "U+00FB", "U+00FC", "U+00FD", "U+00FE", "U+00FF",
      "U+0100", "U+0101", "U+0102", "U+0103", "U+0104", "U+0105", "U+0106",
      "U+0107", "U+0108", "U+0109", "U+010A", "U+010B", "U+010C", "U+010D",
      "U+010E", "U+010F", "U+0110", "U+0111", "U+0112", "U+0113", "U+0114",
      "U+0115", "U+0116", "U+0117", "U+0118", "U+0119", "U+011A", "U+011B",
      "U+011C", "U+011D", "U+011E", "U+011F", "U+0120", "U+0121", "U+0122",
      "U+0123", "U+0124", "U+0125", "U+0126", "U+0127", "U+0128", "U+0129",
      "U+012A", "U+012B", "U+012C", "U+012D", "U+012E", "U+012F", "U+0130",
      "U+0131", "U+0132", "U+0133", "U+0134", "U+0135", "U+0136", "U+0137",
      "U+0138", "U+0139", "U+013A", "U+013B", "U+013C", "U+013D", "U+013E",
      "U+013F", "U+0140", "U+0141", "U+0142", "U+0143", "U+0144", "U+0145",
      "U+0146", "U+0147", "U+0148", "U+0149", "U+014A", "U+014B", "U+014C",
      "U+014D", "U+014E", "U+014F", "U+0150", "U+0151", "U+0152", "U+0153",
      "U+0154", "U+0155", "U+0156", "U+0157", "U+0158", "U+0159", "U+015A",
      "U+015B", "U+015C", "U+015D", "U+015E", "U+015F", "U+0160", "U+0161",
      "U+0162", "U+0163", "U+0164", "U+0165", "U+0166", "U+0167", "U+0168",
      "U+0169", "U+016A", "U+016B", "U+016C", "U+016D", "U+016E", "U+016F",
      "U+0170", "U+0171", "U+0172", "U+0173", "U+0174", "U+0175", "U+0176",
      "U+0177", "U+0178", "U+0179", "U+017A", "U+017B", "U+017C", "U+017D",
      "U+017E", "U+017F", "U+0180", "U+0181", "U+0182", "U+0183", "U+0184",
      "U+0185", "U+0186", "U+0187", "U+0188", "U+0189", "U+018A", "U+018B",
      "U+018C", "U+018D", "U+018E", "U+018F", "U+0190", "U+0191", "U+0192",
      "U+0193", "U+0194", "U+0195", "U+0196", "U+0197", "U+0198", "U+0199",
      "U+019A", "U+019B", "U+019C", "U+019D", "U+019E", "U+019F", "U+01A0",
      "U+01A1", "U+01A2", "U+01A3", "U+01A4", "U+01A5", "U+01A6", "U+01A7",
      "U+01A8", "U+01A9", "U+01AA", "U+01AB", "U+01AC", "U+01AD", "U+01AE",
      "U+01AF", "U+01B0", "U+01B1", "U+01B2", "U+01B3", "U+01B4", "U+01B5",
      "U+01B6", "U+01B7", "U+01B8", "U+01B9", "U+01BA", "U+01BC", "U+01BD",
      "U+01BE", "U+01BF", "U+01C4", "U+01C5", "U+01C6", "U+01C7", "U+01C8",
      "U+01C9", "U+01CA", "U+01CB", "U+01CC", "U+01CD", "U+01CE", "U+01CF",
      "U+01D0", "U+01D1", "U+01D2", "U+01D3", "U+01D4", "U+01D5", "U+01D6",
      "U+01D7", "U+01D8", "U+01D9", "U+01DA", "U+01DB", "U+01DC", "U+01DD",
      "U+01DE", "U+01DF", "U+01E0", "U+01E1", "U+01E2", "U+01E3", "U+01E4",
      "U+01E5", "U+01E6", "U+01E7", "U+01E8", "U+01E9", "U+01EA", "U+01EB",
      "U+01EC", "U+01ED", "U+01EE", "U+01EF", "U+01F0", "U+01F1", "U+01F2",
      "U+01F3", "U+01F4", "U+01F5", "U+01F6", "U+01F7", "U+01F8", "U+01F9",
      "U+01FA", "U+01FB", "U+01FC", "U+01FD", "U+01FE", "U+01FF", "U+0200",
      "U+0201", "U+0202", "U+0203", "U+0204", "U+0205", "U+0206", "U+0207",
      "U+0208", "U+0209", "U+020A", "U+020B", "U+020C", "U+020D", "U+020E",
      "U+020F", "U+0210", "U+0211", "U+0212", "U+0213", "U+0214", "U+0215",
      "U+0216", "U+0217", "U+0218", "U+0219", "U+021A", "U+021B", "U+021C",
      "U+021D", "U+021E", "U+021F", "U+0220", "U+0221", "U+0222", "U+0223",
      "U+0224", "U+0225", "U+0226", "U+0227", "U+0228", "U+0229", "U+022A",
      "U+022B", "U+022C", "U+022D", "U+022E", "U+022F", "U+0230", "U+0231",
      "U+0232", "U+0233", "U+0234", "U+0235", "U+0236", "U+0237", "U+0238",
      "U+0239", "U+023A", "U+023B", "U+023C", "U+023D", "U+023E", "U+023F",
      "U+0240", "U+0241", "U+0242", "U+0243", "U+0244", "U+0245", "U+0246",
      "U+0247", "U+0248", "U+0249", "U+024A", "U+024B", "U+024C", "U+024D",
      "U+024E", "U+024F", "U+0250", "U+0251", "U+0252", "U+0253", "U+0254",
      "U+0255", "U+0256", "U+0257", "U+0258", "U+0259", "U+025A", "U+025B",
      "U+025C", "U+025D", "U+025E", "U+025F", "U+0260", "U+0261", "U+0262",
      "U+0263", "U+0264", "U+0265", "U+0266", "U+0267", "U+0268", "U+0269",
      "U+026A", "U+026B", "U+026C", "U+026D", "U+026E", "U+026F", "U+0270",
      "U+0271", "U+0272", "U+0273", "U+0274", "U+0275", "U+0276", "U+0277",
      "U+0278", "U+0279", "U+027A", "U+027B", "U+027C", "U+027D", "U+027E",
      "U+027F", "U+0280", "U+0281", "U+0282", "U+0283", "U+0284", "U+0285",
      "U+0286", "U+0287", "U+0288", "U+0289", "U+028A", "U+028B", "U+028C",
      "U+028D", "U+028E", "U+028F", "U+0290", "U+0291", "U+0292", "U+0293",
      "U+0295", "U+0296", "U+0297", "U+0298", "U+0299", "U+029A", "U+029B",
      "U+029C", "U+029D", "U+029E", "U+029F", "U+02A0", "U+02A1", "U+02A2",
      "U+02A3", "U+02A4", "U+02A5", "U+02A6", "U+02A7", "U+02A8", "U+02A9",
      "U+02AA", "U+02AB", "U+02AC", "U+02AD", "U+02AE", "U+02AF", "U+0370",
      "U+0371", "U+0372", "U+0373", "U+0376", "U+0377", "U+037B", "U+037C",
      "U+037D", "U+037F", "U+0386", "U+0388", "U+0389", "U+038A", "U+038C",
      "U+038E", "U+038F", "U+0390", "U+0391", "U+0392", "U+0393", "U+0394",
      "U+0395", "U+0396", "U+0397", "U+0398", "U+0399", "U+039A", "U+039B",
      "U+039C", "U+039D", "U+039E", "U+039F", "U+03A0", "U+03A1", "U+03A3",
      "U+03A4", "U+03A5", "U+03A6", "U+03A7", "U+03A8", "U+03A9", "U+03AA",
      "U+03AB", "U+03AC", "U+03AD", "U+03AE", "U+03AF", "U+03B0", "U+03B1",
      "U+03B2", "U+03B3", "U+03B4", "U+03B5", "U+03B6", "U+03B7", "U+03B8",
      "U+03B9", "U+03BA", "U+03BB", "U+03BC", "U+03BD", "U+03BE", "U+03BF",
      "U+03C0", "U+03C1", "U+03C2", "U+03C3", "U+03C4", "U+03C5", "U+03C6",
      "U+03C7", "U+03C8", "U+03C9", "U+03CA", "U+03CB", "U+03CC", "U+03CD",
      "U+03CE", "U+03CF", "U+03D0", "U+03D1", "U+03D2", "U+03D3", "U+03D4",
      "U+03D5", "U+03D6", "U+03D7", "U+03D8", "U+03D9", "U+03DA", "U+03DB",
      "U+03DC", "U+03DD", "U+03DE", "U+03DF", "U+03E0", "U+03E1", "U+03E2",
      "U+03E3", "U+03E4", "U+03E5", "U+03E6", "U+03E7", "U+03E8", "U+03E9",
      "U+03EA", "U+03EB", "U+03EC", "U+03ED", "U+03EE", "U+03EF", "U+03F0",
      "U+03F1", "U+03F2", "U+03F3", "U+03F4", "U+03F5", "U+03F7", "U+03F8",
      "U+03F9", "U+03FA", "U+03FB", "U+03FC", "U+03FD", "U+03FE", "U+03FF",
      "U+0400", "U+0401", "U+0402", "U+0403", "U+0404", "U+0405", "U+0406",
      "U+0407", "U+0408", "U+0409", "U+040A", "U+040B", "U+040C", "U+040D",
      "U+040E", "U+040F", "U+0410", "U+0411", "U+0412", "U+0413", "U+0414",
      "U+0415", "U+0416", "U+0417", "U+0418", "U+0419", "U+041A", "U+041B",
      "U+041C", "U+041D", "U+041E", "U+041F", "U+0420", "U+0421", "U+0422",
      "U+0423", "U+0424", "U+0425", "U+0426", "U+0427", "U+0428", "U+0429",
      "U+042A", "U+042B", "U+042C", "U+042D", "U+042E", "U+042F", "U+0430",
      "U+0431", "U+0432", "U+0433", "U+0434", "U+0435", "U+0436", "U+0437",
      "U+0438", "U+0439", "U+043A", "U+043B", "U+043C", "U+043D", "U+043E",
      "U+043F", "U+0440", "U+0441", "U+0442", "U+0443", "U+0444", "U+0445",
      "U+0446", "U+0447", "U+0448", "U+0449", "U+044A", "U+044B", "U+044C",
      "U+044D", "U+044E", "U+044F", "U+0450", "U+0451", "U+0452", "U+0453",
      "U+0454", "U+0455", "U+0456", "U+0457", "U+0458", "U+0459", "U+045A",
      "U+045B", "U+045C", "U+045D", "U+045E", "U+045F", "U+0460", "U+0461",
      "U+0462", "U+0463", "U+0464", "U+0465", "U+0466", "U+0467", "U+0468",
      "U+0469", "U+046A", "U+046B", "U+046C", "U+046D", "U+046E", "U+046F",
      "U+0470", "U+0471", "U+0472", "U+0473", "U+0474", "U+0475", "U+0476",
      "U+0477", "U+0478", "U+0479", "U+047A", "U+047B", "U+047C", "U+047D",
      "U+047E", "U+047F", "U+0480", "U+0481", "U+048A", "U+048B", "U+048C",
      "U+048D", "U+048E", "U+048F", "U+0490", "U+0491", "U+0492", "U+0493",
      "U+0494", "U+0495", "U+0496", "U+0497", "U+0498", "U+0499", "U+049A",
      "U+049B", "U+049C", "U+049D", "U+049E", "U+049F", "U+04A0", "U+04A1",
      "U+04A2", "U+04A3", "U+04A4", "U+04A5", "U+04A6", "U+04A7", "U+04A8",
      "U+04A9", "U+04AA", "U+04AB", "U+04AC", "U+04AD", "U+04AE", "U+04AF",
      "U+04B0", "U+04B1", "U+04B2", "U+04B3", "U+04B4", "U+04B5", "U+04B6",
      "U+04B7", "U+04B8", "U+04B9", "U+04BA", "U+04BB", "U+04BC", "U+04BD",
      "U+04BE", "U+04BF", "U+04C0", "U+04C1", "U+04C2", "U+04C3", "U+04C4",
      "U+04C5", "U+04C6", "U+04C7", "U+04C8", "U+04C9", "U+04CA", "U+04CB",
      "U+04CC", "U+04CD", "U+04CE", "U+04CF", "U+04D0", "U+04D1", "U+04D2",
      "U+04D3", "U+04D4", "U+04D5", "U+04D6", "U+04D7", "U+04D8", "U+04D9",
      "U+04DA", "U+04DB", "U+04DC", "U+04DD", "U+04DE", "U+04DF", "U+04E0",
      "U+04E1", "U+04E2", "U+04E3", "U+04E4", "U+04E5", "U+04E6", "U+04E7",
      "U+04E8", "U+04E9", "U+04EA", "U+04EB", "U+04EC", "U+04ED", "U+04EE",
      "U+04EF", "U+04F0", "U+04F1", "U+04F2", "U+04F3", "U+04F4", "U+04F5",
      "U+04F6", "U+04F7", "U+04F8", "U+04F9", "U+04FA", "U+04FB", "U+04FC",
      "U+04FD", "U+04FE", "U+04FF", "U+0500", "U+0501", "U+0502", "U+0503",
      "U+0504", "U+0505", "U+0506", "U+0507", "U+0508", "U+0509", "U+050A",
      "U+050B", "U+050C", "U+050D", "U+050E", "U+050F", "U+0510", "U+0511",
      "U+0512", "U+0513", "U+0514", "U+0515", "U+0516", "U+0517", "U+0518",
      "U+0519", "U+051A", "U+051B", "U+051C", "U+051D", "U+051E", "U+051F",
      "U+0520", "U+0521", "U+0522", "U+0523", "U+0524", "U+0525", "U+0526",
      "U+0527", "U+0528", "U+0529", "U+052A", "U+052B", "U+052C", "U+052D",
      "U+052E", "U+052F", "U+0531", "U+0532", "U+0533", "U+0534", "U+0535",
      "U+0536", "U+0537", "U+0538", "U+0539", "U+053A", "U+053B", "U+053C",
      "U+053D", "U+053E", "U+053F", "U+0540", "U+0541", "U+0542", "U+0543",
      "U+0544", "U+0545", "U+0546", "U+0547", "U+0548", "U+0549", "U+054A",
      "U+054B", "U+054C", "U+054D", "U+054E", "U+054F", "U+0550", "U+0551",
      "U+0552", "U+0553", "U+0554", "U+0555", "U+0556", "U+0560", "U+0561",
      "U+0562", "U+0563", "U+0564", "U+0565", "U+0566", "U+0567", "U+0568",
      "U+0569", "U+056A", "U+056B", "U+056C", "U+056D", "U+056E", "U+056F",
      "U+0570", "U+0571", "U+0572", "U+0573", "U+0574", "U+0575", "U+0576",
      "U+0577", "U+0578", "U+0579", "U+057A", "U+057B", "U+057C", "U+057D",
      "U+057E", "U+057F", "U+0580", "U+0581", "U+0582", "U+0583", "U+0584",
      "U+0585", "U+0586", "U+0587", "U+0588", "U+10A0", "U+10A1", "U+10A2",
      "U+10A3", "U+10A4", "U+10A5", "U+10A6", "U+10A7", "U+10A8", "U+10A9",
      "U+10AA", "U+10AB", "U+10AC", "U+10AD", "U+10AE", "U+10AF", "U+10B0",
      "U+10B1", "U+10B2", "U+10B3", "U+10B4", "U+10B5", "U+10B6", "U+10B7",
      "U+10B8", "U+10B9", "U+10BA", "U+10BB", "U+10BC", "U+10BD", "U+10BE",
      "U+10BF", "U+10C0", "U+10C1", "U+10C2", "U+10C3", "U+10C4", "U+10C5",
      "U+10C7", "U+10CD", "U+10D0", "U+10D1", "U+10D2", "U+10D3", "U+10D4",
      "U+10D5", "U+10D6", "U+10D7", "U+10D8", "U+10D9", "U+10DA", "U+10DB",
      "U+10DC", "U+10DD", "U+10DE", "U+10DF", "U+10E0", "U+10E1", "U+10E2",
      "U+10E3", "U+10E4", "U+10E5", "U+10E6", "U+10E7", "U+10E8", "U+10E9",
      "U+10EA", "U+10EB", "U+10EC", "U+10ED", "U+10EE", "U+10EF", "U+10F0",
      "U+10F1", "U+10F2", "U+10F3", "U+10F4", "U+10F5", "U+10F6", "U+10F7",
      "U+10F8", "U+10F9", "U+10FA", "U+10FD", "U+10FE", "U+10FF", "U+13A0",
      "U+13A1", "U+13A2", "U+13A3", "U+13A4", "U+13A5", "U+13A6", "U+13A7",
      "U+13A8", "U+13A9", "U+13AA", "U+13AB", "U+13AC", "U+13AD", "U+13AE",
      "U+13AF", "U+13B0", "U+13B1", "U+13B2", "U+13B3", "U+13B4", "U+13B5",
      "U+13B6", "U+13B7", "U+13B8", "U+13B9", "U+13BA", "U+13BB", "U+13BC",
      "U+13BD", "U+13BE", "U+13BF", "U+13C0", "U+13C1", "U+13C2", "U+13C3",
      "U+13C4", "U+13C5", "U+13C6", "U+13C7", "U+13C8", "U+13C9", "U+13CA",
      "U+13CB", "U+13CC", "U+13CD", "U+13CE", "U+13CF", "U+13D0", "U+13D1",
      "U+13D2", "U+13D3", "U+13D4", "U+13D5", "U+13D6", "U+13D7", "U+13D8",
      "U+13D9", "U+13DA", "U+13DB", "U+13DC", "U+13DD", "U+13DE", "U+13DF",
      "U+13E0", "U+13E1", "U+13E2", "U+13E3", "U+13E4", "U+13E5", "U+13E6",
      "U+13E7", "U+13E8", "U+13E9", "U+13EA", "U+13EB", "U+13EC", "U+13ED",
      "U+13EE", "U+13EF", "U+13F0", "U+13F1", "U+13F2", "U+13F3", "U+13F4",
      "U+13F5", "U+13F8", "U+13F9", "U+13FA", "U+13FB", "U+13FC", "U+13FD",
      "U+1C80", "U+1C81", "U+1C82", "U+1C83", "U+1C84", "U+1C85", "U+1C86",
      "U+1C87", "U+1C88", "U+1C90", "U+1C91", "U+1C92", "U+1C93", "U+1C94",
      "U+1C95", "U+1C96", "U+1C97", "U+1C98", "U+1C99", "U+1C9A", "U+1C9B",
      "U+1C9C", "U+1C9D", "U+1C9E", "U+1C9F", "U+1CA0", "U+1CA1", "U+1CA2",
      "U+1CA3", "U+1CA4", "U+1CA5", "U+1CA6", "U+1CA7", "U+1CA8", "U+1CA9",
      "U+1CAA", "U+1CAB", "U+1CAC", "U+1CAD", "U+1CAE", "U+1CAF", "U+1CB0",
      "U+1CB1", "U+1CB2", "U+1CB3", "U+1CB4", "U+1CB5", "U+1CB6", "U+1CB7",
      "U+1CB8", "U+1CB9", "U+1CBA", "U+1CBD", "U+1CBE", "U+1CBF", "U+1D00",
      "U+1D01", "U+1D02", "U+1D03", "U+1D04", "U+1D05", "U+1D06", "U+1D07",
      "U+1D08", "U+1D09", "U+1D0A", "U+1D0B", "U+1D0C", "U+1D0D", "U+1D0E",
      "U+1D0F", "U+1D10", "U+1D11", "U+1D12", "U+1D13", "U+1D14", "U+1D15",
      "U+1D16", "U+1D17", "U+1D18", "U+1D19", "U+1D1A", "U+1D1B", "U+1D1C",
      "U+1D1D", "U+1D1E", "U+1D1F", "U+1D20", "U+1D21", "U+1D22", "U+1D23",
      "U+1D24", "U+1D25", "U+1D26", "U+1D27", "U+1D28", "U+1D29", "U+1D2A",
      "U+1D2B", "U+1D6B", "U+1D6C", "U+1D6D", "U+1D6E", "U+1D6F", "U+1D70",
      "U+1D71", "U+1D72", "U+1D73", "U+1D74", "U+1D75", "U+1D76", "U+1D77",
      "U+1D79", "U+1D7A", "U+1D7B", "U+1D7C", "U+1D7D", "U+1D7E", "U+1D7F",
      "U+1D80", "U+1D81", "U+1D82", "U+1D83", "U+1D84", "U+1D85", "U+1D86",
      "U+1D87", "U+1D88", "U+1D89", "U+1D8A", "U+1D8B", "U+1D8C", "U+1D8D",
      "U+1D8E", "U+1D8F", "U+1D90", "U+1D91", "U+1D92", "U+1D93", "U+1D94",
      "U+1D95", "U+1D96", "U+1D97", "U+1D98", "U+1D99", "U+1D9A", "U+1E00",
      "U+1E01", "U+1E02", "U+1E03", "U+1E04", "U+1E05", "U+1E06", "U+1E07",
      "U+1E08", "U+1E09", "U+1E0A", "U+1E0B", "U+1E0C", "U+1E0D", "U+1E0E",
      "U+1E0F", "U+1E10", "U+1E11", "U+1E12", "U+1E13", "U+1E14", "U+1E15",
      "U+1E16", "U+1E17", "U+1E18", "U+1E19", "U+1E1A", "U+1E1B", "U+1E1C",
      "U+1E1D", "U+1E1E", "U+1E1F", "U+1E20", "U+1E21", "U+1E22", "U+1E23",
      "U+1E24", "U+1E25", "U+1E26", "U+1E27", "U+1E28", "U+1E29", "U+1E2A",
      "U+1E2B", "U+1E2C", "U+1E2D", "U+1E2E", "U+1E2F", "U+1E30", "U+1E31",
      "U+1E32", "U+1E33", "U+1E34", "U+1E35", "U+1E36", "U+1E37", "U+1E38",
      "U+1E39", "U+1E3A", "U+1E3B", "U+1E3C", "U+1E3D", "U+1E3E", "U+1E3F",
      "U+1E40", "U+1E41", "U+1E42", "U+1E43", "U+1E44", "U+1E45", "U+1E46",
      "U+1E47", "U+1E48", "U+1E49", "U+1E4A", "U+1E4B", "U+1E4C", "U+1E4D",
      "U+1E4E", "U+1E4F", "U+1E50", "U+1E51", "U+1E52", "U+1E53", "U+1E54",
      "U+1E55", "U+1E56", "U+1E57", "U+1E58", "U+1E59", "U+1E5A", "U+1E5B",
      "U+1E5C", "U+1E5D", "U+1E5E", "U+1E5F", "U+1E60", "U+1E61", "U+1E62",
      "U+1E63", "U+1E64", "U+1E65", "U+1E66", "U+1E67", "U+1E68", "U+1E69",
      "U+1E6A", "U+1E6B", "U+1E6C", "U+1E6D", "U+1E6E", "U+1E6F", "U+1E70",
      "U+1E71", "U+1E72", "U+1E73", "U+1E74", "U+1E75", "U+1E76", "U+1E77",
      "U+1E78", "U+1E79", "U+1E7A", "U+1E7B", "U+1E7C", "U+1E7D", "U+1E7E",
      "U+1E7F", "U+1E80", "U+1E81", "U+1E82", "U+1E83", "U+1E84", "U+1E85",
      "U+1E86", "U+1E87", "U+1E88", "U+1E89", "U+1E8A", "U+1E8B", "U+1E8C",
      "U+1E8D", "U+1E8E", "U+1E8F", "U+1E90", "U+1E91", "U+1E92", "U+1E93",
      "U+1E94", "U+1E95", "U+1E96", "U+1E97", "U+1E98", "U+1E99", "U+1E9A",
      "U+1E9B", "U+1E9C", "U+1E9D", "U+1E9E", "U+1E9F", "U+1EA0", "U+1EA1",
      "U+1EA2", "U+1EA3", "U+1EA4", "U+1EA5", "U+1EA6", "U+1EA7", "U+1EA8",
      "U+1EA9", "U+1EAA", "U+1EAB", "U+1EAC", "U+1EAD", "U+1EAE", "U+1EAF",
      "U+1EB0", "U+1EB1", "U+1EB2", "U+1EB3", "U+1EB4", "U+1EB5", "U+1EB6",
      "U+1EB7", "U+1EB8", "U+1EB9", "U+1EBA", "U+1EBB", "U+1EBC", "U+1EBD",
      "U+1EBE", "U+1EBF", "U+1EC0", "U+1EC1", "U+1EC2", "U+1EC3", "U+1EC4",
      "U+1EC5", "U+1EC6", "U+1EC7", "U+1EC8", "U+1EC9", "U+1ECA", "U+1ECB",
      "U+1ECC", "U+1ECD", "U+1ECE", "U+1ECF", "U+1ED0", "U+1ED1", "U+1ED2",
      "U+1ED3", "U+1ED4", "U+1ED5", "U+1ED6", "U+1ED7", "U+1ED8", "U+1ED9",
      "U+1EDA", "U+1EDB", "U+1EDC", "U+1EDD", "U+1EDE", "U+1EDF", "U+1EE0",
      "U+1EE1", "U+1EE2", "U+1EE3", "U+1EE4", "U+1EE5", "U+1EE6", "U+1EE7",
      "U+1EE8", "U+1EE9", "U+1EEA", "U+1EEB", "U+1EEC", "U+1EED", "U+1EEE",
      "U+1EEF", "U+1EF0", "U+1EF1", "U+1EF2", "U+1EF3", "U+1EF4", "U+1EF5",
      "U+1EF6", "U+1EF7", "U+1EF8", "U+1EF9", "U+1EFA", "U+1EFB", "U+1EFC",
      "U+1EFD", "U+1EFE", "U+1EFF", "U+1F00", "U+1F01", "U+1F02", "U+1F03",
      "U+1F04", "U+1F05", "U+1F06", "U+1F07", "U+1F08", "U+1F09", "U+1F0A",
      "U+1F0B", "U+1F0C", "U+1F0D", "U+1F0E", "U+1F0F", "U+1F10", "U+1F11",
      "U+1F12", "U+1F13", "U+1F14", "U+1F15", "U+1F18", "U+1F19", "U+1F1A",
      "U+1F1B", "U+1F1C", "U+1F1D", "U+1F20", "U+1F21", "U+1F22", "U+1F23",
      "U+1F24", "U+1F25", "U+1F26", "U+1F27", "U+1F28", "U+1F29", "U+1F2A",
      "U+1F2B", "U+1F2C", "U+1F2D", "U+1F2E", "U+1F2F", "U+1F30", "U+1F31",
      "U+1F32", "U+1F33", "U+1F34", "U+1F35", "U+1F36", "U+1F37", "U+1F38",
      "U+1F39", "U+1F3A", "U+1F3B", "U+1F3C", "U+1F3D", "U+1F3E", "U+1F3F",
      "U+1F40", "U+1F41", "U+1F42", "U+1F43", "U+1F44", "U+1F45", "U+1F48",
      "U+1F49", "U+1F4A", "U+1F4B", "U+1F4C", "U+1F4D", "U+1F50", "U+1F51",
      "U+1F52", "U+1F53", "U+1F54", "U+1F55", "U+1F56", "U+1F57", "U+1F59",
      "U+1F5B", "U+1F5D", "U+1F5F", "U+1F60", "U+1F61", "U+1F62", "U+1F63",
      "U+1F64", "U+1F65", "U+1F66", "U+1F67", "U+1F68", "U+1F69", "U+1F6A",
      "U+1F6B", "U+1F6C", "U+1F6D", "U+1F6E", "U+1F6F", "U+1F70", "U+1F71",
      "U+1F72", "U+1F73", "U+1F74", "U+1F75", "U+1F76", "U+1F77", "U+1F78",
      "U+1F79", "U+1F7A", "U+1F7B", "U+1F7C", "U+1F7D", "U+1F80", "U+1F81",
      "U+1F82", "U+1F83", "U+1F84", "U+1F85", "U+1F86", "U+1F87", "U+1F88",
      "U+1F89", "U+1F8A", "U+1F8B", "U+1F8C", "U+1F8D", "U+1F8E", "U+1F8F",
      "U+1F90", "U+1F91", "U+1F92", "U+1F93", "U+1F94", "U+1F95", "U+1F96",
      "U+1F97", "U+1F98", "U+1F99", "U+1F9A", "U+1F9B", "U+1F9C", "U+1F9D",
      "U+1F9E", "U+1F9F", "U+1FA0", "U+1FA1", "U+1FA2", "U+1FA3", "U+1FA4",
      "U+1FA5", "U+1FA6", "U+1FA7", "U+1FA8", "U+1FA9", "U+1FAA", "U+1FAB",
      "U+1FAC", "U+1FAD", "U+1FAE", "U+1FAF", "U+1FB0", "U+1FB1", "U+1FB2",
      "U+1FB3", "U+1FB4", "U+1FB6", "U+1FB7", "U+1FB8", "U+1FB9", "U+1FBA",
      "U+1FBB", "U+1FBC", "U+1FBE", "U+1FC2", "U+1FC3", "U+1FC4", "U+1FC6",
      "U+1FC7", "U+1FC8", "U+1FC9", "U+1FCA", "U+1FCB", "U+1FCC", "U+1FD0",
      "U+1FD1", "U+1FD2", "U+1FD3", "U+1FD6", "U+1FD7", "U+1FD8", "U+1FD9",
      "U+1FDA", "U+1FDB", "U+1FE0", "U+1FE1", "U+1FE2", "U+1FE3", "U+1FE4",
      "U+1FE5", "U+1FE6", "U+1FE7", "U+1FE8", "U+1FE9", "U+1FEA", "U+1FEB",
      "U+1FEC", "U+1FF2", "U+1FF3", "U+1FF4", "U+1FF6", "U+1FF7", "U+1FF8",
      "U+1FF9", "U+1FFA", "U+1FFB", "U+1FFC", "U+2102", "U+2107", "U+210A",
      "U+210B", "U+210C", "U+210D", "U+210E", "U+210F", "U+2110", "U+2111",
      "U+2112", "U+2113", "U+2115", "U+2119", "U+211A", "U+211B", "U+211C",
      "U+211D", "U+2124", "U+2126", "U+2128", "U+212A", "U+212B", "U+212C",
      "U+212D", "U+212F", "U+2130", "U+2131", "U+2132", "U+2133", "U+2134",
      "U+2139", "U+213C", "U+213D", "U+213E", "U+213F", "U+2145", "U+2146",
      "U+2147", "U+2148", "U+2149", "U+214E", "U+2160", "U+2161", "U+2162",
      "U+2163", "U+2164", "U+2165", "U+2166", "U+2167", "U+2168", "U+2169",
      "U+216A", "U+216B", "U+216C", "U+216D", "U+216E", "U+216F", "U+2170",
      "U+2171", "U+2172", "U+2173", "U+2174", "U+2175", "U+2176", "U+2177",
      "U+2178", "U+2179", "U+217A", "U+217B", "U+217C", "U+217D", "U+217E",
      "U+217F", "U+2183", "U+2184", "U+24B6", "U+24B7", "U+24B8", "U+24B9",
      "U+24BA", "U+24BB", "U+24BC", "U+24BD", "U+24BE", "U+24BF", "U+24C0",
      "U+24C1", "U+24C2", "U+24C3", "U+24C4", "U+24C5", "U+24C6", "U+24C7",
      "U+24C8", "U+24C9", "U+24CA", "U+24CB", "U+24CC", "U+24CD", "U+24CE",
      "U+24CF", "U+24D0", "U+24D1", "U+24D2", "U+24D3", "U+24D4", "U+24D5",
      "U+24D6", "U+24D7", "U+24D8", "U+24D9", "U+24DA", "U+24DB", "U+24DC",
      "U+24DD", "U+24DE", "U+24DF", "U+24E0", "U+24E1", "U+24E2", "U+24E3",
      "U+24E4", "U+24E5", "U+24E6", "U+24E7", "U+24E8", "U+24E9", "U+2C00",
      "U+2C01", "U+2C02", "U+2C03", "U+2C04", "U+2C05", "U+2C06", "U+2C07",
      "U+2C08", "U+2C09", "U+2C0A", "U+2C0B", "U+2C0C", "U+2C0D", "U+2C0E",
      "U+2C0F", "U+2C10", "U+2C11", "U+2C12", "U+2C13", "U+2C14", "U+2C15",
      "U+2C16", "U+2C17", "U+2C18", "U+2C19", "U+2C1A", "U+2C1B", "U+2C1C",
      "U+2C1D", "U+2C1E", "U+2C1F", "U+2C20", "U+2C21", "U+2C22", "U+2C23",
      "U+2C24", "U+2C25", "U+2C26", "U+2C27", "U+2C28", "U+2C29", "U+2C2A",
      "U+2C2B", "U+2C2C", "U+2C2D", "U+2C2E", "U+2C2F", "U+2C30", "U+2C31",
      "U+2C32", "U+2C33", "U+2C34", "U+2C35", "U+2C36", "U+2C37", "U+2C38",
      "U+2C39", "U+2C3A", "U+2C3B", "U+2C3C", "U+2C3D", "U+2C3E", "U+2C3F",
      "U+2C40", "U+2C41", "U+2C42", "U+2C43", "U+2C44", "U+2C45", "U+2C46",
      "U+2C47", "U+2C48", "U+2C49", "U+2C4A", "U+2C4B", "U+2C4C", "U+2C4D",
      "U+2C4E", "U+2C4F", "U+2C50", "U+2C51", "U+2C52", "U+2C53", "U+2C54",
      "U+2C55", "U+2C56", "U+2C57", "U+2C58", "U+2C59", "U+2C5A", "U+2C5B",
      "U+2C5C", "U+2C5D", "U+2C5E", "U+2C5F", "U+2C60", "U+2C61", "U+2C62",
      "U+2C63", "U+2C64", "U+2C65", "U+2C66", "U+2C67", "U+2C68", "U+2C69",
      "U+2C6A", "U+2C6B", "U+2C6C", "U+2C6D", "U+2C6E", "U+2C6F", "U+2C70",
      "U+2C71", "U+2C72", "U+2C73", "U+2C74", "U+2C75", "U+2C76", "U+2C77",
      "U+2C78", "U+2C79", "U+2C7A", "U+2C7B", "U+2C7E", "U+2C7F", "U+2C80",
      "U+2C81", "U+2C82", "U+2C83", "U+2C84", "U+2C85", "U+2C86", "U+2C87",
      "U+2C88", "U+2C89", "U+2C8A", "U+2C8B", "U+2C8C", "U+2C8D", "U+2C8E",
      "U+2C8F", "U+2C90", "U+2C91", "U+2C92", "U+2C93", "U+2C94", "U+2C95",
      "U+2C96", "U+2C97", "U+2C98", "U+2C99", "U+2C9A", "U+2C9B", "U+2C9C",
      "U+2C9D", "U+2C9E", "U+2C9F", "U+2CA0", "U+2CA1", "U+2CA2", "U+2CA3",
      "U+2CA4", "U+2CA5", "U+2CA6", "U+2CA7", "U+2CA8", "U+2CA9", "U+2CAA",
      "U+2CAB", "U+2CAC", "U+2CAD", "U+2CAE", "U+2CAF", "U+2CB0", "U+2CB1",
      "U+2CB2", "U+2CB3", "U+2CB4", "U+2CB5", "U+2CB6", "U+2CB7", "U+2CB8",
      "U+2CB9", "U+2CBA", "U+2CBB", "U+2CBC", "U+2CBD", "U+2CBE", "U+2CBF",
      "U+2CC0", "U+2CC1", "U+2CC2", "U+2CC3", "U+2CC4", "U+2CC5", "U+2CC6",
      "U+2CC7", "U+2CC8", "U+2CC9", "U+2CCA", "U+2CCB", "U+2CCC", "U+2CCD",
      "U+2CCE", "U+2CCF", "U+2CD0", "U+2CD1", "U+2CD2", "U+2CD3", "U+2CD4",
      "U+2CD5", "U+2CD6", "U+2CD7", "U+2CD8", "U+2CD9", "U+2CDA", "U+2CDB",
      "U+2CDC", "U+2CDD", "U+2CDE", "U+2CDF", "U+2CE0", "U+2CE1", "U+2CE2",
      "U+2CE3", "U+2CE4", "U+2CEB", "U+2CEC", "U+2CED", "U+2CEE", "U+2CF2",
      "U+2CF3", "U+2D00", "U+2D01", "U+2D02", "U+2D03", "U+2D04", "U+2D05",
      "U+2D06", "U+2D07", "U+2D08", "U+2D09", "U+2D0A", "U+2D0B", "U+2D0C",
      "U+2D0D", "U+2D0E", "U+2D0F", "U+2D10", "U+2D11", "U+2D12", "U+2D13",
      "U+2D14", "U+2D15", "U+2D16", "U+2D17", "U+2D18", "U+2D19", "U+2D1A",
      "U+2D1B", "U+2D1C", "U+2D1D", "U+2D1E", "U+2D1F", "U+2D20", "U+2D21",
      "U+2D22", "U+2D23", "U+2D24", "U+2D25", "U+2D27", "U+2D2D", "U+A640",
      "U+A641", "U+A642", "U+A643", "U+A644", "U+A645", "U+A646", "U+A647",
      "U+A648", "U+A649", "U+A64A", "U+A64B", "U+A64C", "U+A64D", "U+A64E",
      "U+A64F", "U+A650", "U+A651", "U+A652", "U+A653", "U+A654", "U+A655",
      "U+A656", "U+A657", "U+A658", "U+A659", "U+A65A", "U+A65B", "U+A65C",
      "U+A65D", "U+A65E", "U+A65F", "U+A660", "U+A661", "U+A662", "U+A663",
      "U+A664", "U+A665", "U+A666", "U+A667", "U+A668", "U+A669", "U+A66A",
      "U+A66B", "U+A66C", "U+A66D", "U+A680", "U+A681", "U+A682", "U+A683",
      "U+A684", "U+A685", "U+A686", "U+A687", "U+A688", "U+A689", "U+A68A",
      "U+A68B", "U+A68C", "U+A68D", "U+A68E", "U+A68F", "U+A690", "U+A691",
      "U+A692", "U+A693", "U+A694", "U+A695", "U+A696", "U+A697", "U+A698",
      "U+A699", "U+A69A", "U+A69B", "U+A722", "U+A723", "U+A724", "U+A725",
      "U+A726", "U+A727", "U+A728", "U+A729", "U+A72A", "U+A72B", "U+A72C",
      "U+A72D", "U+A72E", "U+A72F", "U+A730", "U+A731", "U+A732", "U+A733",
      "U+A734", "U+A735", "U+A736", "U+A737", "U+A738", "U+A739", "U+A73A",
      "U+A73B", "U+A73C", "U+A73D", "U+A73E", "U+A73F", "U+A740", "U+A741",
      "U+A742", "U+A743", "U+A744", "U+A745", "U+A746", "U+A747", "U+A748",
      "U+A749", "U+A74A", "U+A74B", "U+A74C", "U+A74D", "U+A74E", "U+A74F",
      "U+A750", "U+A751", "U+A752", "U+A753", "U+A754", "U+A755", "U+A756",
      "U+A757", "U+A758", "U+A759", "U+A75A", "U+A75B", "U+A75C", "U+A75D",
      "U+A75E", "U+A75F", "U+A760", "U+A761", "U+A762", "U+A763", "U+A764",
      "U+A765", "U+A766", "U+A767", "U+A768", "U+A769", "U+A76A", "U+A76B",
      "U+A76C", "U+A76D", "U+A76E", "U+A76F", "U+A771", "U+A772", "U+A773",
      "U+A774", "U+A775", "U+A776", "U+A777", "U+A778", "U+A779", "U+A77A",
      "U+A77B", "U+A77C", "U+A77D", "U+A77E", "U+A77F", "U+A780", "U+A781",
      "U+A782", "U+A783", "U+A784", "U+A785", "U+A786", "U+A787", "U+A78B",
      "U+A78C", "U+A78D", "U+A78E", "U+A790", "U+A791", "U+A792", "U+A793",
      "U+A794", "U+A795", "U+A796", "U+A797", "U+A798", "U+A799", "U+A79A",
      "U+A79B", "U+A79C", "U+A79D", "U+A79E", "U+A79F", "U+A7A0", "U+A7A1",
      "U+A7A2", "U+A7A3", "U+A7A4", "U+A7A5", "U+A7A6", "U+A7A7", "U+A7A8",
      "U+A7A9", "U+A7AA", "U+A7AB", "U+A7AC", "U+A7AD", "U+A7AE", "U+A7AF",
      "U+A7B0", "U+A7B1", "U+A7B2", "U+A7B3", "U+A7B4", "U+A7B5", "U+A7B6",
      "U+A7B7", "U+A7B8", "U+A7B9", "U+A7BA", "U+A7BB", "U+A7BC", "U+A7BD",
      "U+A7BE", "U+A7BF", "U+A7C0", "U+A7C1", "U+A7C2", "U+A7C3", "U+A7C4",
      "U+A7C5", "U+A7C6", "U+A7C7", "U+A7C8", "U+A7C9", "U+A7CA", "U+A7D0",
      "U+A7D1", "U+A7D3", "U+A7D5", "U+A7D6", "U+A7D7", "U+A7D8", "U+A7D9",
      "U+A7F5", "U+A7F6", "U+A7FA", "U+AB30", "U+AB31", "U+AB32", "U+AB33",
      "U+AB34", "U+AB35", "U+AB36", "U+AB37", "U+AB38", "U+AB39", "U+AB3A",
      "U+AB3B", "U+AB3C", "U+AB3D", "U+AB3E", "U+AB3F", "U+AB40", "U+AB41",
      "U+AB42", "U+AB43", "U+AB44", "U+AB45", "U+AB46", "U+AB47", "U+AB48",
      "U+AB49", "U+AB4A", "U+AB4B", "U+AB4C", "U+AB4D", "U+AB4E", "U+AB4F",
      "U+AB50", "U+AB51", "U+AB52", "U+AB53", "U+AB54", "U+AB55", "U+AB56",
      "U+AB57", "U+AB58", "U+AB59", "U+AB5A", "U+AB60", "U+AB61", "U+AB62",
      "U+AB63", "U+AB64", "U+AB65", "U+AB66", "U+AB67", "U+AB68", "U+AB70",
      "U+AB71", "U+AB72", "U+AB73", "U+AB74", "U+AB75", "U+AB76", "U+AB77",
      "U+AB78", "U+AB79", "U+AB7A", "U+AB7B", "U+AB7C", "U+AB7D", "U+AB7E",
      "U+AB7F", "U+AB80", "U+AB81", "U+AB82", "U+AB83", "U+AB84", "U+AB85",
      "U+AB86", "U+AB87", "U+AB88", "U+AB89", "U+AB8A", "U+AB8B", "U+AB8C",
      "U+AB8D", "U+AB8E", "U+AB8F", "U+AB90", "U+AB91", "U+AB92", "U+AB93",
      "U+AB94", "U+AB95", "U+AB96", "U+AB97", "U+AB98", "U+AB99", "U+AB9A",
      "U+AB9B", "U+AB9C", "U+AB9D", "U+AB9E", "U+AB9F", "U+ABA0", "U+ABA1",
      "U+ABA2", "U+ABA3", "U+ABA4", "U+ABA5", "U+ABA6", "U+ABA7", "U+ABA8",
      "U+ABA9", "U+ABAA", "U+ABAB", "U+ABAC", "U+ABAD", "U+ABAE", "U+ABAF",
      "U+ABB0", "U+ABB1", "U+ABB2", "U+ABB3", "U+ABB4", "U+ABB5", "U+ABB6",
      "U+ABB7", "U+ABB8", "U+ABB9", "U+ABBA", "U+ABBB", "U+ABBC", "U+ABBD",
      "U+ABBE", "U+ABBF", "U+FB00", "U+FB01", "U+FB02", "U+FB03", "U+FB04",
      "U+FB05", "U+FB06", "U+FB13", "U+FB14", "U+FB15", "U+FB16", "U+FB17",
      "U+FF21", "U+FF22", "U+FF23", "U+FF24", "U+FF25", "U+FF26", "U+FF27",
      "U+FF28", "U+FF29", "U+FF2A", "U+FF2B", "U+FF2C", "U+FF2D", "U+FF2E",
      "U+FF2F", "U+FF30", "U+FF31", "U+FF32", "U+FF33", "U+FF34", "U+FF35",
      "U+FF36", "U+FF37", "U+FF38", "U+FF39", "U+FF3A", "U+FF41", "U+FF42",
      "U+FF43", "U+FF44", "U+FF45", "U+FF46", "U+FF47", "U+FF48", "U+FF49",
      "U+FF4A", "U+FF4B", "U+FF4C", "U+FF4D", "U+FF4E", "U+FF4F", "U+FF50",
      "U+FF51", "U+FF52", "U+FF53", "U+FF54", "U+FF55", "U+FF56", "U+FF57",
      "U+FF58", "U+FF59", "U+FF5A", "U+10400", "U+10401", "U+10402",
      "U+10403", "U+10404", "U+10405", "U+10406", "U+10407", "U+10408",
      "U+10409", "U+1040A", "U+1040B", "U+1040C", "U+1040D", "U+1040E",
      "U+1040F", "U+10410", "U+10411", "U+10412", "U+10413", "U+10414",
      "U+10415", "U+10416", "U+10417", "U+10418", "U+10419", "U+1041A",
      "U+1041B", "U+1041C", "U+1041D", "U+1041E", "U+1041F", "U+10420",
      "U+10421", "U+10422", "U+10423", "U+10424", "U+10425", "U+10426",
      "U+10427", "U+10428", "U+10429", "U+1042A", "U+1042B", "U+1042C",
      "U+1042D", "U+1042E", "U+1042F", "U+10430", "U+10431", "U+10432",
      "U+10433", "U+10434", "U+10435", "U+10436", "U+10437", "U+10438",
      "U+10439", "U+1043A", "U+1043B", "U+1043C", "U+1043D", "U+1043E",
      "U+1043F", "U+10440", "U+10441", "U+10442", "U+10443", "U+10444",
      "U+10445", "U+10446", "U+10447", "U+10448", "U+10449", "U+1044A",
      "U+1044B", "U+1044C", "U+1044D", "U+1044E", "U+1044F", "U+104B0",
      "U+104B1", "U+104B2", "U+104B3", "U+104B4", "U+104B5", "U+104B6",
      "U+104B7", "U+104B8", "U+104B9", "U+104BA", "U+104BB", "U+104BC",
      "U+104BD", "U+104BE", "U+104BF", "U+104C0", "U+104C1", "U+104C2",
      "U+104C3", "U+104C4", "U+104C5", "U+104C6", "U+104C7", "U+104C8",
      "U+104C9", "U+104CA", "U+104CB", "U+104CC", "U+104CD", "U+104CE",
      "U+104CF", "U+104D0", "U+104D1", "U+104D2", "U+104D3", "U+104D8",
      "U+104D9", "U+104DA", "U+104DB", "U+104DC", "U+104DD", "U+104DE",
      "U+104DF", "U+104E0", "U+104E1", "U+104E2", "U+104E3", "U+104E4",
      "U+104E5", "U+104E6", "U+104E7", "U+104E8", "U+104E9", "U+104EA",
      "U+104EB", "U+104EC", "U+104ED", "U+104EE", "U+104EF", "U+104F0",
      "U+104F1", "U+104F2", "U+104F3", "U+104F4", "U+104F5", "U+104F6",
      "U+104F7", "U+104F8", "U+104F9", "U+104FA", "U+104FB", "U+10570",
      "U+10571", "U+10572", "U+10573", "U+10574", "U+10575", "U+10576",
      "U+10577", "U+10578", "U+10579", "U+1057A", "U+1057C", "U+1057D",
      "U+1057E", "U+1057F", "U+10580", "U+10581", "U+10582", "U+10583",
      "U+10584", "U+10585", "U+10586", "U+10587", "U+10588", "U+10589",
      "U+1058A", "U+1058C", "U+1058D", "U+1058E", "U+1058F", "U+10590",
      "U+10591", "U+10592", "U+10594", "U+10595", "U+10597", "U+10598",
      "U+10599", "U+1059A", "U+1059B", "U+1059C", "U+1059D", "U+1059E",
      "U+1059F", "U+105A0", "U+105A1", "U+105A3", "U+105A4", "U+105A5",
      "U+105A6", "U+105A7", "U+105A8", "U+105A9", "U+105AA", "U+105AB",
      "U+105AC", "U+105AD", "U+105AE", "U+105AF", "U+105B0", "U+105B1",
      "U+105B3", "U+105B4", "U+105B5", "U+105B6", "U+105B7", "U+105B8",
      "U+105B9", "U+105BB", "U+105BC", "U+10C80", "U+10C81", "U+10C82",
      "U+10C83", "U+10C84", "U+10C85", "U+10C86", "U+10C87", "U+10C88",
      "U+10C89", "U+10C8A", "U+10C8B", "U+10C8C", "U+10C8D", "U+10C8E",
      "U+10C8F", "U+10C90", "U+10C91", "U+10C92", "U+10C93", "U+10C94",
      "U+10C95", "U+10C96", "U+10C97", "U+10C98", "U+10C99", "U+10C9A",
      "U+10C9B", "U+10C9C", "U+10C9D", "U+10C9E", "U+10C9F", "U+10CA0",
      "U+10CA1", "U+10CA2", "U+10CA3", "U+10CA4", "U+10CA5", "U+10CA6",
      "U+10CA7", "U+10CA8", "U+10CA9", "U+10CAA", "U+10CAB", "U+10CAC",
      "U+10CAD", "U+10CAE", "U+10CAF", "U+10CB0", "U+10CB1", "U+10CB2",
      "U+10CC0", "U+10CC1", "U+10CC2", "U+10CC3", "U+10CC4", "U+10CC5",
      "U+10CC6", "U+10CC7", "U+10CC8", "U+10CC9", "U+10CCA", "U+10CCB",
      "U+10CCC", "U+10CCD", "U+10CCE", "U+10CCF", "U+10CD0", "U+10CD1",
      "U+10CD2", "U+10CD3", "U+10CD4", "U+10CD5", "U+10CD6", "U+10CD7",
      "U+10CD8", "U+10CD9", "U+10CDA", "U+10CDB", "U+10CDC", "U+10CDD",
      "U+10CDE", "U+10CDF", "U+10CE0", "U+10CE1", "U+10CE2", "U+10CE3",
      "U+10CE4", "U+10CE5", "U+10CE6", "U+10CE7", "U+10CE8", "U+10CE9",
      "U+10CEA", "U+10CEB", "U+10CEC", "U+10CED", "U+10CEE", "U+10CEF",
      "U+10CF0", "U+10CF1", "U+10CF2", "U+118A0", "U+118A1", "U+118A2",
      "U+118A3", "U+118A4", "U+118A5", "U+118A6", "U+118A7", "U+118A8",
      "U+118A9", "U+118AA", "U+118AB", "U+118AC", "U+118AD", "U+118AE",
      "U+118AF", "U+118B0", "U+118B1", "U+118B2", "U+118B3", "U+118B4",
      "U+118B5", "U+118B6", "U+118B7", "U+118B8", "U+118B9", "U+118BA",
      "U+118BB", "U+118BC", "U+118BD", "U+118BE", "U+118BF", "U+118C0",
      "U+118C1", "U+118C2", "U+118C3", "U+118C4", "U+118C5", "U+118C6",
      "U+118C7", "U+118C8", "U+118C9", "U+118CA", "U+118CB", "U+118CC",
      "U+118CD", "U+118CE", "U+118CF", "U+118D0", "U+118D1", "U+118D2",
      "U+118D3", "U+118D4", "U+118D5", "U+118D6", "U+118D7", "U+118D8",
      "U+118D9", "U+118DA", "U+118DB", "U+118DC", "U+118DD", "U+118DE",
      "U+118DF", "U+16E40", "U+16E41", "U+16E42", "U+16E43", "U+16E44",
      "U+16E45", "U+16E46", "U+16E47", "U+16E48", "U+16E49", "U+16E4A",
      "U+16E4B", "U+16E4C", "U+16E4D", "U+16E4E", "U+16E4F", "U+16E50",
      "U+16E51", "U+16E52", "U+16E53", "U+16E54", "U+16E55", "U+16E56",
      "U+16E57", "U+16E58", "U+16E59", "U+16E5A", "U+16E5B", "U+16E5C",
      "U+16E5D", "U+16E5E", "U+16E5F", "U+16E60", "U+16E61", "U+16E62",
      "U+16E63", "U+16E64", "U+16E65", "U+16E66", "U+16E67", "U+16E68",
      "U+16E69", "U+16E6A", "U+16E6B", "U+16E6C", "U+16E6D", "U+16E6E",
      "U+16E6F", "U+16E70", "U+16E71", "U+16E72", "U+16E73", "U+16E74",
      "U+16E75", "U+16E76", "U+16E77", "U+16E78", "U+16E79", "U+16E7A",
      "U+16E7B", "U+16E7C", "U+16E7D", "U+16E7E", "U+16E7F", "U+1D400",
      "U+1D401", "U+1D402", "U+1D403", "U+1D404", "U+1D405", "U+1D406",
      "U+1D407", "U+1D408", "U+1D409", "U+1D40A", "U+1D40B", "U+1D40C",
      "U+1D40D", "U+1D40E", "U+1D40F", "U+1D410", "U+1D411", "U+1D412",
      "U+1D413", "U+1D414", "U+1D415", "U+1D416", "U+1D417", "U+1D418",
      "U+1D419", "U+1D41A", "U+1D41B", "U+1D41C", "U+1D41D", "U+1D41E",
      "U+1D41F", "U+1D420", "U+1D421", "U+1D422", "U+1D423", "U+1D424",
      "U+1D425", "U+1D426", "U+1D427", "U+1D428", "U+1D429", "U+1D42A",
      "U+1D42B", "U+1D42C", "U+1D42D", "U+1D42E", "U+1D42F", "U+1D430",
      "U+1D431", "U+1D432", "U+1D433", "U+1D434", "U+1D435", "U+1D436",
      "U+1D437", "U+1D438", "U+1D439", "U+1D43A", "U+1D43B", "U+1D43C",
      "U+1D43D", "U+1D43E", "U+1D43F", "U+1D440", "U+1D441", "U+1D442",
      "U+1D443", "U+1D444", "U+1D445", "U+1D446", "U+1D447", "U+1D448",
      "U+1D449", "U+1D44A", "U+1D44B", "U+1D44C", "U+1D44D", "U+1D44E",
      "U+1D44F", "U+1D450", "U+1D451", "U+1D452", "U+1D453", "U+1D454",
      "U+1D456", "U+1D457", "U+1D458", "U+1D459", "U+1D45A", "U+1D45B",
      "U+1D45C", "U+1D45D", "U+1D45E", "U+1D45F", "U+1D460", "U+1D461",
      "U+1D462", "U+1D463", "U+1D464", "U+1D465", "U+1D466", "U+1D467",
      "U+1D468", "U+1D469", "U+1D46A", "U+1D46B", "U+1D46C", "U+1D46D",
      "U+1D46E", "U+1D46F", "U+1D470", "U+1D471", "U+1D472", "U+1D473",
      "U+1D474", "U+1D475", "U+1D476", "U+1D477", "U+1D478", "U+1D479",
      "U+1D47A", "U+1D47B", "U+1D47C", "U+1D47D", "U+1D47E", "U+1D47F",
      "U+1D480", "U+1D481", "U+1D482", "U+1D483", "U+1D484", "U+1D485",
      "U+1D486", "U+1D487", "U+1D488", "U+1D489", "U+1D48A", "U+1D48B",
      "U+1D48C", "U+1D48D", "U+1D48E", "U+1D48F", "U+1D490", "U+1D491",
      "U+1D492", "U+1D493", "U+1D494", "U+1D495", "U+1D496", "U+1D497",
      "U+1D498", "U+1D499", "U+1D49A", "U+1D49B", "U+1D49C", "U+1D49E",
      "U+1D49F", "U+1D4A2", "U+1D4A5", "U+1D4A6", "U+1D4A9", "U+1D4AA",
      "U+1D4AB", "U+1D4AC", "U+1D4AE", "U+1D4AF", "U+1D4B0", "U+1D4B1",
      "U+1D4B2", "U+1D4B3", "U+1D4B4", "U+1D4B5", "U+1D4B6", "U+1D4B7",
      "U+1D4B8", "U+1D4B9", "U+1D4BB", "U+1D4BD", "U+1D4BE", "U+1D4BF",
      "U+1D4C0", "U+1D4C1", "U+1D4C2", "U+1D4C3", "U+1D4C5", "U+1D4C6",
      "U+1D4C7", "U+1D4C8", "U+1D4C9", "U+1D4CA", "U+1D4CB", "U+1D4CC",
      "U+1D4CD", "U+1D4CE", "U+1D4CF", "U+1D4D0", "U+1D4D1", "U+1D4D2",
      "U+1D4D3", "U+1D4D4", "U+1D4D5", "U+1D4D6", "U+1D4D7", "U+1D4D8",
      "U+1D4D9", "U+1D4DA", "U+1D4DB", "U+1D4DC", "U+1D4DD", "U+1D4DE",
      "U+1D4DF", "U+1D4E0", "U+1D4E1", "U+1D4E2", "U+1D4E3", "U+1D4E4",
      "U+1D4E5", "U+1D4E6", "U+1D4E7", "U+1D4E8", "U+1D4E9", "U+1D4EA",
      "U+1D4EB", "U+1D4EC", "U+1D4ED", "U+1D4EE", "U+1D4EF", "U+1D4F0",
      "U+1D4F1", "U+1D4F2", "U+1D4F3", "U+1D4F4", "U+1D4F5", "U+1D4F6",
      "U+1D4F7", "U+1D4F8", "U+1D4F9", "U+1D4FA", "U+1D4FB", "U+1D4FC",
      "U+1D4FD", "U+1D4FE", "U+1D4FF", "U+1D500", "U+1D501", "U+1D502",
      "U+1D503", "U+1D504", "U+1D505", "U+1D507", "U+1D508", "U+1D509",
      "U+1D50A", "U+1D50D", "U+1D50E", "U+1D50F", "U+1D510", "U+1D511",
      "U+1D512", "U+1D513", "U+1D514", "U+1D516", "U+1D517", "U+1D518",
      "U+1D519", "U+1D51A", "U+1D51B", "U+1D51C", "U+1D51E", "U+1D51F",
      "U+1D520", "U+1D521", "U+1D522", "U+1D523", "U+1D524", "U+1D525",
      "U+1D526", "U+1D527", "U+1D528", "U+1D529", "U+1D52A", "U+1D52B",
      "U+1D52C", "U+1D52D", "U+1D52E", "U+1D52F", "U+1D530", "U+1D531",
      "U+1D532", "U+1D533", "U+1D534", "U+1D535", "U+1D536", "U+1D537",
      "U+1D538", "U+1D539", "U+1D53B", "U+1D53C", "U+1D53D", "U+1D53E",
      "U+1D540", "U+1D541", "U+1D542", "U+1D543", "U+1D544", "U+1D546",
      "U+1D54A", "U+1D54B", "U+1D54C", "U+1D54D", "U+1D54E", "U+1D54F",
      "U+1D550", "U+1D552", "U+1D553", "U+1D554", "U+1D555", "U+1D556",
      "U+1D557", "U+1D558", "U+1D559", "U+1D55A", "U+1D55B", "U+1D55C",
      "U+1D55D", "U+1D55E", "U+1D55F", "U+1D560", "U+1D561", "U+1D562",
      "U+1D563", "U+1D564", "U+1D565", "U+1D566", "U+1D567", "U+1D568",
      "U+1D569", "U+1D56A", "U+1D56B", "U+1D56C", "U+1D56D", "U+1D56E",
      "U+1D56F", "U+1D570", "U+1D571", "U+1D572", "U+1D573", "U+1D574",
      "U+1D575", "U+1D576", "U+1D577", "U+1D578", "U+1D579", "U+1D57A",
      "U+1D57B", "U+1D57C", "U+1D57D", "U+1D57E", "U+1D57F", "U+1D580",
      "U+1D581", "U+1D582", "U+1D583", "U+1D584", "U+1D585", "U+1D586",
      "U+1D587", "U+1D588", "U+1D589", "U+1D58A", "U+1D58B", "U+1D58C",
      "U+1D58D", "U+1D58E", "U+1D58F", "U+1D590", "U+1D591", "U+1D592",
      "U+1D593", "U+1D594", "U+1D595", "U+1D596", "U+1D597", "U+1D598",
      "U+1D599", "U+1D59A", "U+1D59B", "U+1D59C", "U+1D59D", "U+1D59E",
      "U+1D59F", "U+1D5A0", "U+1D5A1", "U+1D5A2", "U+1D5A3", "U+1D5A4",
      "U+1D5A5", "U+1D5A6", "U+1D5A7", "U+1D5A8", "U+1D5A9", "U+1D5AA",
      "U+1D5AB", "U+1D5AC", "U+1D5AD", "U+1D5AE", "U+1D5AF", "U+1D5B0",
      "U+1D5B1", "U+1D5B2", "U+1D5B3", "U+1D5B4", "U+1D5B5", "U+1D5B6",
      "U+1D5B7", "U+1D5B8", "U+1D5B9", "U+1D5BA", "U+1D5BB", "U+1D5BC",
      "U+1D5BD", "U+1D5BE", "U+1D5BF", "U+1D5C0", "U+1D5C1", "U+1D5C2",
      "U+1D5C3", "U+1D5C4", "U+1D5C5", "U+1D5C6", "U+1D5C7", "U+1D5C8",
      "U+1D5C9", "U+1D5CA", "U+1D5CB", "U+1D5CC", "U+1D5CD", "U+1D5CE",
      "U+1D5CF", "U+1D5D0", "U+1D5D1", "U+1D5D2", "U+1D5D3", "U+1D5D4",
      "U+1D5D5", "U+1D5D6", "U+1D5D7", "U+1D5D8", "U+1D5D9", "U+1D5DA",
      "U+1D5DB", "U+1D5DC", "U+1D5DD", "U+1D5DE", "U+1D5DF", "U+1D5E0",
      "U+1D5E1", "U+1D5E2", "U+1D5E3", "U+1D5E4", "U+1D5E5", "U+1D5E6",
      "U+1D5E7", "U+1D5E8", "U+1D5E9", "U+1D5EA", "U+1D5EB", "U+1D5EC",
      "U+1D5ED", "U+1D5EE", "U+1D5EF", "U+1D5F0", "U+1D5F1", "U+1D5F2",
      "U+1D5F3", "U+1D5F4", "U+1D5F5", "U+1D5F6", "U+1D5F7", "U+1D5F8",
      "U+1D5F9", "U+1D5FA", "U+1D5FB", "U+1D5FC", "U+1D5FD", "U+1D5FE",
      "U+1D5FF", "U+1D600", "U+1D601", "U+1D602", "U+1D603", "U+1D604",
      "U+1D605", "U+1D606", "U+1D607", "U+1D608", "U+1D609", "U+1D60A",
      "U+1D60B", "U+1D60C", "U+1D60D", "U+1D60E", "U+1D60F", "U+1D610",
      "U+1D611", "U+1D612", "U+1D613", "U+1D614", "U+1D615", "U+1D616",
      "U+1D617", "U+1D618", "U+1D619", "U+1D61A", "U+1D61B", "U+1D61C",
      "U+1D61D", "U+1D61E", "U+1D61F", "U+1D620", "U+1D621", "U+1D622",
      "U+1D623", "U+1D624", "U+1D625", "U+1D626", "U+1D627", "U+1D628",
      "U+1D629", "U+1D62A", "U+1D62B", "U+1D62C", "U+1D62D", "U+1D62E",
      "U+1D62F", "U+1D630", "U+1D631", "U+1D632", "U+1D633", "U+1D634",
      "U+1D635", "U+1D636", "U+1D637", "U+1D638", "U+1D639", "U+1D63A",
      "U+1D63B", "U+1D63C", "U+1D63D", "U+1D63E", "U+1D63F", "U+1D640",
      "U+1D641", "U+1D642", "U+1D643", "U+1D644", "U+1D645", "U+1D646",
      "U+1D647", "U+1D648", "U+1D649", "U+1D64A", "U+1D64B", "U+1D64C",
      "U+1D64D", "U+1D64E", "U+1D64F", "U+1D650", "U+1D651", "U+1D652",
      "U+1D653", "U+1D654", "U+1D655", "U+1D656", "U+1D657", "U+1D658",
      "U+1D659", "U+1D65A", "U+1D65B", "U+1D65C", "U+1D65D", "U+1D65E",
      "U+1D65F", "U+1D660", "U+1D661", "U+1D662", "U+1D663", "U+1D664",
      "U+1D665", "U+1D666", "U+1D667", "U+1D668", "U+1D669", "U+1D66A",
      "U+1D66B", "U+1D66C", "U+1D66D", "U+1D66E", "U+1D66F", "U+1D670",
      "U+1D671", "U+1D672", "U+1D673", "U+1D674", "U+1D675", "U+1D676",
      "U+1D677", "U+1D678", "U+1D679", "U+1D67A", "U+1D67B", "U+1D67C",
      "U+1D67D", "U+1D67E", "U+1D67F", "U+1D680", "U+1D681", "U+1D682",
      "U+1D683", "U+1D684", "U+1D685", "U+1D686", "U+1D687", "U+1D688",
      "U+1D689", "U+1D68A", "U+1D68B", "U+1D68C", "U+1D68D", "U+1D68E",
      "U+1D68F", "U+1D690", "U+1D691", "U+1D692", "U+1D693", "U+1D694",
      "U+1D695", "U+1D696", "U+1D697", "U+1D698", "U+1D699", "U+1D69A",
      "U+1D69B", "U+1D69C", "U+1D69D", "U+1D69E", "U+1D69F", "U+1D6A0",
      "U+1D6A1", "U+1D6A2", "U+1D6A3", "U+1D6A4", "U+1D6A5", "U+1D6A8",
      "U+1D6A9", "U+1D6AA", "U+1D6AB", "U+1D6AC", "U+1D6AD", "U+1D6AE",
      "U+1D6AF", "U+1D6B0", "U+1D6B1", "U+1D6B2", "U+1D6B3", "U+1D6B4",
      "U+1D6B5", "U+1D6B6", "U+1D6B7", "U+1D6B8", "U+1D6B9", "U+1D6BA",
      "U+1D6BB", "U+1D6BC", "U+1D6BD", "U+1D6BE", "U+1D6BF", "U+1D6C0",
      "U+1D6C2", "U+1D6C3", "U+1D6C4", "U+1D6C5", "U+1D6C6", "U+1D6C7",
      "U+1D6C8", "U+1D6C9", "U+1D6CA", "U+1D6CB", "U+1D6CC", "U+1D6CD",
      "U+1D6CE", "U+1D6CF", "U+1D6D0", "U+1D6D1", "U+1D6D2", "U+1D6D3",
      "U+1D6D4", "U+1D6D5", "U+1D6D6", "U+1D6D7", "U+1D6D8", "U+1D6D9",
      "U+1D6DA", "U+1D6DC", "U+1D6DD", "U+1D6DE", "U+1D6DF", "U+1D6E0",
      "U+1D6E1", "U+1D6E2", "U+1D6E3", "U+1D6E4", "U+1D6E5", "U+1D6E6",
      "U+1D6E7", "U+1D6E8", "U+1D6E9", "U+1D6EA", "U+1D6EB", "U+1D6EC",
      "U+1D6ED", "U+1D6EE", "U+1D6EF", "U+1D6F0", "U+1D6F1", "U+1D6F2",
      "U+1D6F3", "U+1D6F4", "U+1D6F5", "U+1D6F6", "U+1D6F7", "U+1D6F8",
      "U+1D6F9", "U+1D6FA", "U+1D6FC", "U+1D6FD", "U+1D6FE", "U+1D6FF",
      "U+1D700", "U+1D701", "U+1D702", "U+1D703", "U+1D704", "U+1D705",
      "U+1D706", "U+1D707", "U+1D708", "U+1D709", "U+1D70A", "U+1D70B",
      "U+1D70C", "U+1D70D", "U+1D70E", "U+1D70F", "U+1D710", "U+1D711",
      "U+1D712", "U+1D713", "U+1D714", "U+1D716", "U+1D717", "U+1D718",
      "U+1D719", "U+1D71A", "U+1D71B", "U+1D71C", "U+1D71D", "U+1D71E",
      "U+1D71F", "U+1D720", "U+1D721", "U+1D722", "U+1D723", "U+1D724",
      "U+1D725", "U+1D726", "U+1D727", "U+1D728", "U+1D729", "U+1D72A",
      "U+1D72B", "U+1D72C", "U+1D72D", "U+1D72E", "U+1D72F", "U+1D730",
      "U+1D731", "U+1D732", "U+1D733", "U+1D734", "U+1D736", "U+1D737",
      "U+1D738", "U+1D739", "U+1D73A", "U+1D73B", "U+1D73C", "U+1D73D",
      "U+1D73E", "U+1D73F", "U+1D740", "U+1D741", "U+1D742", "U+1D743",
      "U+1D744", "U+1D745", "U+1D746", "U+1D747", "U+1D748", "U+1D749",
      "U+1D74A", "U+1D74B", "U+1D74C", "U+1D74D", "U+1D74E", "U+1D750",
      "U+1D751", "U+1D752", "U+1D753", "U+1D754", "U+1D755", "U+1D756",
      "U+1D757", "U+1D758", "U+1D759", "U+1D75A", "U+1D75B", "U+1D75C",
      "U+1D75D", "U+1D75E", "U+1D75F", "U+1D760", "U+1D761", "U+1D762",
      "U+1D763", "U+1D764", "U+1D765", "U+1D766", "U+1D767", "U+1D768",
      "U+1D769", "U+1D76A", "U+1D76B", "U+1D76C", "U+1D76D", "U+1D76E",
      "U+1D770", "U+1D771", "U+1D772", "U+1D773", "U+1D774", "U+1D775",
      "U+1D776", "U+1D777", "U+1D778", "U+1D779", "U+1D77A", "U+1D77B",
      "U+1D77C", "U+1D77D", "U+1D77E", "U+1D77F", "U+1D780", "U+1D781",
      "U+1D782", "U+1D783", "U+1D784", "U+1D785", "U+1D786", "U+1D787",
      "U+1D788", "U+1D78A", "U+1D78B", "U+1D78C", "U+1D78D", "U+1D78E",
      "U+1D78F", "U+1D790", "U+1D791", "U+1D792", "U+1D793", "U+1D794",
      "U+1D795", "U+1D796", "U+1D797", "U+1D798", "U+1D799", "U+1D79A",
      "U+1D79B", "U+1D79C", "U+1D79D", "U+1D79E", "U+1D79F", "U+1D7A0",
      "U+1D7A1", "U+1D7A2", "U+1D7A3", "U+1D7A4", "U+1D7A5", "U+1D7A6",
      "U+1D7A7", "U+1D7A8", "U+1D7AA", "U+1D7AB", "U+1D7AC", "U+1D7AD",
      "U+1D7AE", "U+1D7AF", "U+1D7B0", "U+1D7B1", "U+1D7B2", "U+1D7B3",
      "U+1D7B4", "U+1D7B5", "U+1D7B6", "U+1D7B7", "U+1D7B8", "U+1D7B9",
      "U+1D7BA", "U+1D7BB", "U+1D7BC", "U+1D7BD", "U+1D7BE", "U+1D7BF",
      "U+1D7C0", "U+1D7C1", "U+1D7C2", "U+1D7C4", "U+1D7C5", "U+1D7C6",
      "U+1D7C7", "U+1D7C8", "U+1D7C9", "U+1D7CA", "U+1D7CB", "U+1DF00",
      "U+1DF01", "U+1DF02", "U+1DF03", "U+1DF04", "U+1DF05", "U+1DF06",
      "U+1DF07", "U+1DF08", "U+1DF09", "U+1DF0B", "U+1DF0C", "U+1DF0D",
      "U+1DF0E", "U+1DF0F", "U+1DF10", "U+1DF11", "U+1DF12", "U+1DF13",
      "U+1DF14", "U+1DF15", "U+1DF16", "U+1DF17", "U+1DF18", "U+1DF19",
      "U+1DF1A", "U+1DF1B", "U+1DF1C", "U+1DF1D", "U+1DF1E", "U+1E900",
      "U+1E901", "U+1E902", "U+1E903", "U+1E904", "U+1E905", "U+1E906",
      "U+1E907", "U+1E908", "U+1E909", "U+1E90A", "U+1E90B", "U+1E90C",
      "U+1E90D", "U+1E90E", "U+1E90F", "U+1E910", "U+1E911", "U+1E912",
      "U+1E913", "U+1E914", "U+1E915", "U+1E916", "U+1E917", "U+1E918",
      "U+1E919", "U+1E91A", "U+1E91B", "U+1E91C", "U+1E91D", "U+1E91E",
      "U+1E91F", "U+1E920", "U+1E921", "U+1E922", "U+1E923", "U+1E924",
      "U+1E925", "U+1E926", "U+1E927", "U+1E928", "U+1E929", "U+1E92A",
      "U+1E92B", "U+1E92C", "U+1E92D", "U+1E92E", "U+1E92F", "U+1E930",
      "U+1E931", "U+1E932", "U+1E933", "U+1E934", "U+1E935", "U+1E936",
      "U+1E937", "U+1E938", "U+1E939", "U+1E93A", "U+1E93B", "U+1E93C",
      "U+1E93D", "U+1E93E", "U+1E93F", "U+1E940", "U+1E941", "U+1E942",
      "U+1E943", "U+1F130", "U+1F131", "U+1F132", "U+1F133", "U+1F134",
      "U+1F135", "U+1F136", "U+1F137", "U+1F138", "U+1F139", "U+1F13A",
      "U+1F13B", "U+1F13C", "U+1F13D", "U+1F13E", "U+1F13F", "U+1F140",
      "U+1F141", "U+1F142", "U+1F143", "U+1F144", "U+1F145", "U+1F146",
      "U+1F147", "U+1F148", "U+1F149", "U+1F150", "U+1F151", "U+1F152",
      "U+1F153", "U+1F154", "U+1F155", "U+1F156", "U+1F157", "U+1F158",
      "U+1F159", "U+1F15A", "U+1F15B", "U+1F15C", "U+1F15D", "U+1F15E",
      "U+1F15F", "U+1F160", "U+1F161", "U+1F162", "U+1F163", "U+1F164",
      "U+1F165", "U+1F166", "U+1F167", "U+1F168", "U+1F169", "U+1F170",
      "U+1F171", "U+1F172", "U+1F173", "U+1F174", "U+1F175", "U+1F176",
      "U+1F177", "U+1F178", "U+1F179", "U+1F17A", "U+1F17B", "U+1F17C",
      "U+1F17D", "U+1F17E", "U+1F17F", "U+1F180", "U+1F181", "U+1F182",
      "U+1F183", "U+1F184", "U+1F185", "U+1F186", "U+1F187", "U+1F188",
      "U+1F189"}

CasedChars == {UpperChars[k] : k \in 1..Len(UpperChars)}
ExtraCases == {ExtraCaseFrom[k] : k \in 1..Len(ExtraCaseFrom)}

\* The lower-case character of c, as IGNORECASE takes it.
Lower(c) ==
    IF c \in CasedChars
    THEN LowerChars[CHOOSE k \in 1..Len(UpperChars) : UpperChars[k] = c]
    ELSE c

\* Two characters are the same to an IGNORECASE pattern when their
\* lower-case characters are equal or of one group of _EXTRA_CASES.
Fold(c) ==
    IF Lower(c) \in ExtraCases
    THEN ExtraCaseTo[CHOOSE k \in 1..Len(ExtraCaseFrom) :
                         ExtraCaseFrom[k] = Lower(c)]
    ELSE Lower(c)

\* str.lower() of a capital sigma at position i: the final sigma after a
\* cased letter when no cased letter follows, case-ignorable characters
\* passed over on both sides.
FinalSigma(s, i) ==
    LET before == {j \in 1..(i - 1) : s[j] \notin CaseIgnorable}
        after == {j \in (i + 1)..Len(s) : s[j] \notin CaseIgnorable}
    IN  /\ before # {}
        /\ s[CHOOSE j \in before : \A m \in before : m <= j] \in CasedLetters
        /\ \/ after = {}
           \/ s[CHOOSE j \in after : \A m \in after : j <= m]
                \notin CasedLetters

\* what str.lower() makes of the character at position i
LowerAt(s, i) ==
    IF s[i] = "U+03A3"
    THEN (IF FinalSigma(s, i) THEN <<"U+03C2">> ELSE <<"U+03C3">>)
    ELSE IF s[i] = "U+0130" THEN <<"i", "U+0307">>
    ELSE <<Lower(s[i])>>

RECURSIVE LowerFrom(_, _)
LowerFrom(s, i) ==
    IF i > Len(s) THEN <<>> ELSE LowerAt(s, i) \o LowerFrom(s, i + 1)

\* str.lower()
LowerStr(s) == LowerFrom(s, 1)

\* The end (exclusive) of the match of  \[([^\]]*)\]\([^)]+\)  at position
\* i of s, or 0.
LinkEnd(s, i) ==
    IF i > Len(s) \/ s[i] # "[" THEN 0
    ELSE LET j == IndexFrom(s, "]", i + 1)
         IN  IF j = 0 \/ j + 1 > Len(s) \/ s[j + 1] # "(" THEN 0
             ELSE LET k == IndexFrom(s, ")", j + 2)
                  IN  IF k = 0 \/ k = j + 2 THEN 0 ELSE k + 1

\* _MD_LINK_OR_TS_RE at position i: the link alternative first.
ProtectedEnd(s, i) ==
    IF LinkEnd(s, i) # 0 THEN LinkEnd(s, i) ELSE MarkerEnd(s, i)

\* for m in _MD_LINK_OR_TS_RE.finditer(text): the spans <<start, end>>
RECURSIVE ProtectedFrom(_, _)
ProtectedFrom(s, i) ==
    IF i > Len(s) THEN <<>>
    ELSE IF ProtectedEnd(s, i) # 0
    THEN << <<i, ProtectedEnd(s, i)>> >> \o ProtectedFrom(s, ProtectedEnd(s, i))
    ELSE ProtectedFrom(s, i + 1)

\* _in_protected(start, end)
in_protected(protected, start, end) ==
    \E n \in 1..Len(protected) :
        \/ protected[n][1] <= start /\ start < protected[n][2]
        \/ protected[n][1] < end /\ end <= protected[n][2]

\* re.compile(re.escape(phrase), re.IGNORECASE) matches at position i
PhraseAt(text, phrase, i) ==
    /\ i + Len(phrase) - 1 <= Len(text)
    /\ \A k \in 1..Len(phrase) : Fold(text[i + k - 1]) = Fold(phrase[k])

\* for m in pattern.finditer(text): the start of the first match that is
\* not protected, or 0; matches do not overlap, and after an empty match
\* (the empty phrase matches at every position, the end of the text
\* included) the search goes on one character further.
RECURSIVE FirstUnprotected(_, _, _, _)
FirstUnprotected(text, phrase, protected, i) ==
    IF i + Len(phrase) - 1 > Len(text) THEN 0
    ELSE IF PhraseAt(text, phrase, i)
    THEN IF ~in_protected(protected, i, i + Len(phrase)) THEN i
         ELSE FirstUnprotected(text, phrase, protected,
                               i + (IF phrase = <<>> THEN 1 ELSE Len(phrase)))
    ELSE FirstUnprotected(text, phrase, protected, i + 1)

\* replace_first that puts the link in front of a text without a match.
ReplaceFirstOrPrepend(text, phrase, url) ==
    LET at == FirstUnprotected(text, phrase, ProtectedFrom(text, 1), 1)
    IN  IF at = 0
        THEN [text |-> <<"[">> \o phrase \o <<"]", "(">> \o url \o <<")">>
                         \o text,
              replaced |-> TRUE]
        ELSE [text |-> SubSeq(text, 1, at - 1)
                         \o <<"[">> \o SubSeq(text, at, at + Len(phrase) - 1)
                         \o <<"]", "(">> \o url \o <<")">>
                         \o SubSeq(text, at + Len(phrase), Len(text)),
              replaced |-> TRUE]

\* _replace_first(text, phrase, url): [text, replaced]
replace_first(text, phrase, url) ==
    LET at == FirstUnprotected(text, phrase, ProtectedFrom(text, 1), 1)
    IN  IF at = 0 THEN [text |-> text, replaced |-> FALSE]
        ELSE [text |-> SubSeq(text, 1, at - 1)
                         \o <<"[">> \o SubSeq(text, at, at + Len(phrase) - 1)
                         \o <<"]", "(">> \o url \o <<")">>
                         \o SubSeq(text, at + Len(phrase), Len(text)),
              replaced |-> TRUE]

\* sorted(link_map, key=lambda e: -len(e["phrase"])), a stable sort
RECURSIVE InsertLink(_, _)
InsertLink(sorted, e) ==
    IF sorted = <<>> THEN <<e>>
    ELSE IF Len(Last(sorted).phrase) >= Len(e.phrase) THEN Append(sorted, e)
    ELSE Append(InsertLink(Front(sorted), e), Last(sorted))

RECURSIVE SortLinksFrom(_, _)
SortLinksFrom(sorted, rest) ==
    IF rest = <<>> THEN sorted
    ELSE SortLinksFrom(InsertLink(sorted, Head(rest)), Tail(rest))

\* markdown.splitlines(keepends=True)
RECURSIVE SplitKeepEndsFrom(_, _)
SplitKeepEndsFrom(text, cur) ==
    IF text = <<>> THEN (IF cur = <<>> THEN <<>> ELSE <<cur>>)
    ELSE IF Head(text) = "\r" /\ Len(text) >= 2 /\ text[2] = NL
    THEN <<cur \o <<"\r", NL>> >>
           \o SplitKeepEndsFrom(Tail(Tail(text)), <<>>)
    ELSE IF Head(text) \in LineBoundaries
    THEN <<Append(cur, Head(text))>> \o SplitKeepEndsFrom(Tail(text), <<>>)
    ELSE SplitKeepEndsFrom(Tail(text), Append(cur, Head(text)))

\* a line of splitlines(keepends=True) without its line boundary
DropLineEnd(l) ==
    IF Len(l) >= 2 /\ l[Len(l) - 1] = "\r" /\ Last(l) = NL
    THEN SubSeq(l, 1, Len(l) - 2)
    ELSE IF l # <<>> /\ Last(l) \in LineBoundaries THEN Front(l)
    ELSE l

\* _is_heading(line)
is_heading(line) == line # <<>> /\ Head(line) = "#"

\* for i, line in enumerate(lines): the first line that is not a heading
\* and holds an unprotected occurrence gets the link; st is
\* [lines, used_phrases].
RECURSIVE LinkFirstLine(_, _, _)
LinkFirstLine(st, entry, i) ==
    IF i > Len(st.lines) THEN st
    ELSE IF is_heading(st.lines[i]) THEN LinkFirstLine(st, entry, i + 1)
    ELSE LET r == replace_first(st.lines[i], entry.phrase, entry.url)
         IN  IF r.replaced
             THEN [lines |-> [st.lines EXCEPT ![i] = r.text],
                   used_phrases |-> st.used_phrases
                                      \cup {LowerStr(entry.phrase)}]
             ELSE LinkFirstLine(st, entry, i + 1)

\* EntryStep without the test of used_phrases.
EntryStepNoUsed(st, entry) == LinkFirstLine(st, entry, 1)

\* One iteration of "for entry in sorted_map".
EntryStep(st, entry) ==
    IF LowerStr(entry.phrase) \in st.used_phrases THEN st
    ELSE LinkFirstLine(st, entry, 1)

RECURSIVE EntryLoop(_, _)
EntryLoop(st, entries) ==
    IF entries = <<>> THEN st
    ELSE EntryLoop(EntryStep(st, Head(entries)), Tail(entries))

enrich_links(markdown, link_map) ==
    join(<<>>,
         EntryLoop([lines |-> SplitKeepEndsFrom(markdown, <<>>),
                    used_phrases |-> {}],
                   SortLinksFrom(<<>>, link_map)).lines)

\* enrich_links.py holds the same _MD_LINK_OR_TS_RE, _is_heading and
\* _replace_first as apply_structure.py, and enrich is enrich_links
\* statement by statement:
\*   sorted_map = sorted(link_map, key=lambda e: -len(e["phrase"]))
\*   lines = markdown.splitlines(keepends=True);  used_phrases = set()
\*   for entry in sorted_map: ...
\*   return "".join(lines)
enrich(markdown, link_map) ==
    join(<<>>,
         EntryLoop([lines |-> SplitKeepEndsFrom(markdown, <<>>),
                    used_phrases |-> {}],
                   SortLinksFrom(<<>>, link_map)).lines)



YoutuBe == <<"h", "t", "t", "p", "s", ":", "/", "/", "y", "o", "u", "t", "u", ".", "b", "e", "/">>
Separator == "U+25B8"    \* the one character U+25B8

\* _replace(m) for the marker [minutes:seconds] that starts at i and ends
\* before e
TimestampLink(text, i, e, vid) ==
    LET colon == IndexFrom(text, ":", i)
        minutes == StrToInt(SubSeq(text, i + 1, colon - 1))
        seconds == StrToInt(SubSeq(text, colon + 1, colon + 2))
        total == minutes * 60 + seconds
    IN  <<"[">> \o IntToStr(minutes) \o <<":">> \o Pad02(seconds)
          \o <<"]", "(">> \o YoutuBe \o vid \o <<"?", "t", "=">>
          \o IntToStr(total) \o <<")", " ", Separator, " ">>

\* LinkifyFrom without the anchor ^ .
RECURSIVE LinkifyAnywhere(_, _, _)
LinkifyAnywhere(text, i, vid) ==
    IF i > Len(text) THEN <<>>
    ELSE IF MarkerEnd(text, i) # 0
    THEN TimestampLink(text, i, MarkerEnd(text, i), vid)
           \o LinkifyAnywhere(text, SkipWhitespace(text, MarkerEnd(text, i)),
                              vid)
    ELSE <<text[i]>> \o LinkifyAnywhere(text, i + 1, vid)

\* ts_re.sub(_replace, markdown) with ts_re = ^\[(\d+):(\d{2})\]\s* under
\* re.MULTILINE: ^ matches at the start and after every newline, and \s*
\* takes newlines too.
RECURSIVE LinkifyFrom(_, _, _)
LinkifyFrom(text, i, vid) ==
    IF i > Len(text) THEN <<>>
    ELSE IF (i = 1 \/ text[i - 1] = NL) /\ MarkerEnd(text, i) # 0
    THEN TimestampLink(text, i, MarkerEnd(text, i), vid)
           \o LinkifyFrom(text, SkipWhitespace(text, MarkerEnd(text, i)), vid)
    ELSE <<text[i]>> \o LinkifyFrom(text, i + 1, vid)

linkify_timestamps(markdown, vid) == LinkifyFrom(markdown, 1, vid)

\* Path.read_text(): the text of the file with every "\r\n" and every
\* other "\r" turned into "\n" (universal newlines)
RECURSIVE read_text(_)
read_text(data) ==
    IF data = <<>> THEN <<>>
    ELSE IF Head(data) = "\r" /\ Len(data) >= 2 /\ data[2] = NL
    THEN <<NL>> \o read_text(Tail(Tail(data)))
    ELSE IF Head(data) = "\r" THEN <<NL>> \o read_text(Tail(data))
    ELSE <<Head(data)>> \o read_text(Tail(data))

\* str.splitlines()
splitlines(text) ==
    [i \in 1..Len(SplitKeepEndsFrom(text, <<>>)) |->
        DropLineEnd(SplitKeepEndsFrom(text, <<>>)[i])]

\* main(): result = apply_structure(lines, hints); enrich_links when the
\* hints hold links; linkify_timestamps when --video-id is given
MainResult(ls, h, vid) ==
    LET structured == apply_structure(ls, h)
        enriched == IF h.links # <<>> THEN enrich_links(structured, h.links)
                    ELSE structured
    IN  IF vid # None /\ vid[1] # <<>>
        THEN linkify_timestamps(enriched, vid[1]) ELSE enriched

(***************************************************************************)
(* git_context_chunks.py                                                   *)
(***************************************************************************)
CHAR_LIMIT == 16384

RecentHeader ==
    <<"=", "=", " ", "R", "e", "c", "e", "n", "t", " ", "c", "o", "m", "m",
      "i", "t", "s", " ", "(", "l", "a", "s", "t", " ", "5", ")", " ", "=",
      "=", NL>>
NoCommitsFound ==
    <<"(", "n", "o", " ", "c", "o", "m", "m", "i", "t", "s", " ", "f", "o",
      "u", "n", "d", ")", NL, NL>>
StagedHeader ==
    <<"=", "=", " ", "S", "t", "a", "g", "e", "d", " ", "c", "h", "a", "n",
      "g", "e", "s", " ", "(", "g", "i", "t", " ", "-", "-", "n", "o", "-",
      "p", "a", "g", "e", "r", " ", "d", "i", "f", "f", " ", "-", "-", "c",
      "a", "c", "h", "e", "d", ")", " ", "=", "=", NL>>
NoStagedChanges ==
    <<"(", "n", "o", " ", "s", "t", "a", "g", "e", "d", " ", "c", "h", "a",
      "n", "g", "e", "s", ")", NL>>
DiffGit ==
    <<"d", "i", "f", "f", " ", "-", "-", "g", "i", "t", " ">>

\* get_recent_commits(), output being what git log printed
get_recent_commits(output) ==
    IF strip(output) = <<>> THEN RecentHeader \o NoCommitsFound
    ELSE RecentHeader \o strip(output) \o <<NL, NL>>

\* One iteration of "for line in diff_body.splitlines(keepends=True)";
\* st is [blocks, current].
BlockStep(st, line) ==
    LET closed == IF StartsWith(line, DiffGit) /\ st.current # <<>>
                  THEN [blocks |-> Append(st.blocks, join(<<>>, st.current)),
                        current |-> <<>>]
                  ELSE st
    IN  [closed EXCEPT !.current = Append(@, line)]

RECURSIVE BlockLoop(_, _)
BlockLoop(st, ls) ==
    IF ls = <<>> THEN st ELSE BlockLoop(BlockStep(st, Head(ls)), Tail(ls))

split_diff_by_file(diff_body) ==
    LET st == BlockLoop([blocks |-> <<>>, current |-> <<>>],
                        SplitKeepEndsFrom(diff_body, <<>>))
    IN  IF st.current # <<>>
        THEN Append(st.blocks, join(<<>>, st.current))
        ELSE st.blocks

Min(a, b) == IF a <= b THEN a ELSE b

\* Python's reading of a slice bound i for a string of length n: a
\* negative bound counts from the end, and the result stays within 0..n
SliceBound(i, n) ==
    IF i < 0 THEN (IF i + n < 0 THEN 0 ELSE i + n)
    ELSE IF i > n THEN n ELSE i

\* The last offset n with lo <= n < hi that holds a newline, or -1, for
\* 0 <= lo and hi <= Len(seg)
RECURSIVE LastNewline(_, _, _)
LastNewline(seg, lo, hi) ==
    IF hi <= lo THEN -1
    ELSE IF seg[hi] = NL THEN hi - 1
    ELSE LastNewline(seg, lo, hi - 1)

\* seg.rfind("\n", lo, hi) for any integers lo and hi, read as slice
\* bounds
rfind_newline(seg, lo, hi) ==
    LastNewline(seg, SliceBound(lo, Len(seg)), SliceBound(hi, Len(seg)))

\* seg[lo:hi]
Slice(seg, lo, hi) ==
    SubSeq(seg, SliceBound(lo, Len(seg)) + 1, SliceBound(hi, Len(seg)))

\* The while loop of fine_grain_segments from offset start on.
RECURSIVE SplitSegment(_, _, _)
SplitSegment(seg, start, char_limit) ==
    IF start >= Len(seg) THEN <<>>
    ELSE LET end == Min(start + char_limit, Len(seg))
             newline_pos == rfind_newline(seg, start + 1, end)
             cut == IF newline_pos = -1 \/ newline_pos <= start
                    THEN end ELSE newline_pos + 1
         IN  <<Slice(seg, start, cut)>>
               \o SplitSegment(seg, cut, char_limit)

\* cut of one iteration of the while loop: end, or just after the last
\* newline of the window
Cut(seg, start, char_limit) ==
    LET end == Min(start + char_limit, Len(seg))
        newline_pos == rfind_newline(seg, start + 1, end)
    IN  IF newline_pos = -1 \/ newline_pos <= start THEN end
        ELSE newline_pos + 1

RECURSIVE fine_grain_segments(_, _)
fine_grain_segments(segments, char_limit) ==
    IF segments = <<>> THEN <<>>
    ELSE (IF Len(Head(segments)) <= char_limit THEN <<Head(segments)>>
          ELSE SplitSegment(Head(segments), 0, char_limit))
           \o fine_grain_segments(Tail(segments), char_limit)

\* segments = [recent_section] + the staged part
Segments(log_output, diff_output) ==
    <<get_recent_commits(log_output)>>
      \o (IF strip(diff_output) # <<>>
          THEN <<StagedHeader>> \o split_diff_by_file(diff_output)
          ELSE <<StagedHeader \o NoStagedChanges>>)

\* CombineStep that lets a chunk grow one character beyond the limit.
CombineStepOverLimit(st, seg, char_limit) ==
    IF st.current = <<>> THEN [st EXCEPT !.current = seg]
    ELSE IF Len(st.current) + Len(seg) <= char_limit + 1
    THEN [st EXCEPT !.current = @ \o seg]
    ELSE [chunks |-> Append(st.chunks, st.current), current |-> seg]

\* One iteration of "for seg in fine_segments"; st is [chunks, current].
CombineStep(st, seg, char_limit) ==
    IF st.current = <<>> THEN [st EXCEPT !.current = seg]
    ELSE IF Len(st.current) + Len(seg) <= char_limit
    THEN [st EXCEPT !.current = @ \o seg]
    ELSE [chunks |-> Append(st.chunks, st.current), current |-> seg]

\* "for seg in fine_segments": the first half of the segments, then the
\* second half from the state the first half left.  The loop is taken by
\* halves, and the state of the first half is looked at before the second
\* half is taken, so that a list of a hundred segments is evaluated
\* without deep nesting; both branches of the test are the same loop.
RECURSIVE CombineLoop(_, _, _)
CombineLoop(st, segs, char_limit) ==
    IF segs = <<>> THEN st
    ELSE IF Len(segs) = 1 THEN CombineStep(st, segs[1], char_limit)
    ELSE LET half == Len(segs) \div 2
             first == CombineLoop(st, SubSeq(segs, 1, half), char_limit)
         IN  IF first.current = <<>>
             THEN CombineLoop(first, SubSeq(segs, half + 1, Len(segs)),
                              char_limit)
             ELSE CombineLoop(first, SubSeq(segs, half + 1, Len(segs)),
                              char_limit)

\* build_chunks(char_limit), the outputs of the two git commands given
build_chunks(log_output, diff_output, char_limit) ==
    LET segments == Segments(log_output, diff_output)
        full_text == join(<<>>, segments)
        st == CombineLoop([chunks |-> <<>>, current |-> <<>>],
                          fine_grain_segments(segments, char_limit),
                          char_limit)
    IN  IF Len(full_text) <= char_limit THEN <<full_text>>
        ELSE IF st.current # <<>> THEN Append(st.chunks, st.current)
        ELSE st.chunks

(***************************************************************************)
(* email-delete.py                                                         *)
(***************************************************************************)
\* run_himalaya(args, verbose).  With verbose the first statement prints to
\* console, a name the module does not define: NameError is raised before
\* himalaya is started.  The error branch after subprocess.run needs
\* args[0] != "envelope" and args[1] == "delete", which neither command
\* satisfies.
run_himalaya(command, is_verbose) ==
    IF is_verbose THEN [raised |-> TRUE, ran |-> <<>>]
    ELSE [raised |-> FALSE, ran |-> <<command>>]

\* get_message: the message when himalaya printed a JSON string, None
\* when it printed other JSON or no JSON; the exit status is not read.
get_message(output) ==
    IF output = "json string" THEN Some("message") ELSE None

\* confirm that takes the empty answer for a yes.
ConfirmDefaultYes(typed) == typed \in {"y", ""}

\* typer.confirm(..., default=False) of an answer that was typed
confirm(typed) == typed = "y"

\* delete_email: the events in order, what reaches stderr (the traceback
\* of the NameError, or the "Aborted." of typer when the prompt is
\* interrupted) and the exit status
delete_email(do_execute, is_verbose, is_tty, output, typed, rc) ==
    LET fetch == run_himalaya("himalaya message read", is_verbose)
        message_data == get_message(output)
        fetched == <<"print Fetching">> \o fetch.ran
        previewed == fetched \o <<"print preview">>
        asked == previewed
                   \o (IF is_tty THEN <<"confirm">> ELSE <<>>)
        delete == run_himalaya("himalaya envelope delete", is_verbose)
        deleting == asked \o <<"print Deleting">> \o delete.ran
    IN  IF fetch.raised
        THEN [events |-> fetched, stderr |-> <<"Traceback">>,
              exit_code |-> 1]
        ELSE IF message_data = None
        THEN [events |-> fetched \o <<"print not found">>,
              stderr |-> <<>>, exit_code |-> 1]
        ELSE IF ~do_execute
        THEN [events |-> previewed \o <<"print DRY-RUN MODE">>,
              stderr |-> <<>>, exit_code |-> 0]
        ELSE IF is_tty /\ typed = "abort"
        THEN [events |-> asked, stderr |-> <<"Aborted.">>, exit_code |-> 1]
        ELSE IF is_tty /\ ~confirm(typed)
        THEN [events |-> asked \o <<"print Delete cancelled">>,
              stderr |-> <<>>, exit_code |-> 0]
        ELSE IF delete.raised
        THEN [events |-> deleting, stderr |-> <<"Traceback">>,
              exit_code |-> 1]
        ELSE IF rc = 0
        THEN [events |-> deleting \o <<"print Email deleted">>,
              stderr |-> <<>>, exit_code |-> 0]
        ELSE [events |-> deleting \o <<"print Delete failed">>,
              stderr |-> <<>>, exit_code |-> 1]

(***************************************************************************)
(* email_save.py.  A path is the sequence of its names below the current   *)
(* directory, which is <<>>; a file is a record [path, content].          *)
(***************************************************************************)
\* generate_filename(1, subject, date, "markdown", date_prefix=False)
Filename == "1.md"

\* the names with a suffix (Path.suffix is not empty)
SuffixNames == {"1.md", "mail.md", "a.png"}

\* Path.parent; the parent of Path(".") is Path(".")
Parent(path) == IF path = <<>> THEN <<>> ELSE Front(path)

\* what path.mkdir(parents=True, exist_ok=True) leaves
mkdir(dirs, path) == dirs \cup {SubSeq(path, 1, k) : k \in 0..Len(path)}

HasSuffix(path) == path # <<>> /\ Last(path) \in SuffixNames

FileExists(files, path) == \E f \in files : f.path = path

PathExists(dirs, files, path) == path \in dirs \/ FileExists(files, path)

\* path.write_text(content), and the target of shutil.move
WriteFile(files, path, content) ==
    {f \in files : f.path # path} \cup {[path |-> path, content |-> content]}

\* _determine_output_path(output, filename): the path and the directories
\* it leaves
determine_output_path(output, filename, dirs, files) ==
    IF output = None THEN [path |-> <<filename>>, dirs |-> dirs]
    ELSE IF output[1] \in dirs
    THEN [path |-> Append(output[1], filename),
          dirs |-> mkdir(dirs, output[1])]
    ELSE IF PathExists(dirs, files, output[1])
    THEN [path |-> output[1], dirs |-> dirs]
    ELSE IF ~HasSuffix(output[1])
    THEN [path |-> Append(output[1], filename),
          dirs |-> mkdir(dirs, output[1])]
    ELSE [path |-> output[1], dirs |-> mkdir(dirs, Parent(output[1]))]

\* effective_attachment_dir that falls back to the current directory.
EffectiveDirCwd(attachment_dir, path) ==
    IF attachment_dir # None THEN attachment_dir[1] ELSE <<>>

\* options.attachment_dir or output_path.parent (a Path is never false)
effective_attachment_dir(attachment_dir, path) ==
    IF attachment_dir # None THEN attachment_dir[1] ELSE Parent(path)

\* the loop over downloaded_files: each file is moved into attachment_dir;
\* shutil.move raises FileNotFoundError for a file that is no longer in
\* the downloads directory (a name that himalaya printed twice)
RECURSIVE MoveFiles(_, _, _)
MoveFiles(files, names, attachment_dir) ==
    IF names = <<>> THEN [files |-> files, raised |-> FALSE]
    ELSE IF ~FileExists(files, <<"Downloads", Head(names)>>)
    THEN [files |-> files, raised |-> TRUE]
    ELSE MoveFiles(WriteFile({f \in files :
                                 f.path # <<"Downloads", Head(names)>>},
                             Append(attachment_dir, Head(names)),
                             "attachment"),
                   Tail(names), attachment_dir)

\* _download_attachments_internal: himalaya writes the attachments into
\* its downloads directory and names them in its output; they are then
\* moved into attachment_dir
download_attachments_internal(names, attachment_dir, dirs, files) ==
    LET downloaded ==
            files \cup {[path |-> <<"Downloads", names[n]>>,
                         content |-> "attachment"] : n \in 1..Len(names)}
        moved == MoveFiles(downloaded, names, attachment_dir)
    IN  IF names # <<>>
        THEN [dirs |-> mkdir(dirs, attachment_dir),
              files |-> moved.files,
              raised |-> moved.raised,
              attachments |-> [n \in 1..Len(names) |->
                                 Append(attachment_dir, names[n])]]
        ELSE [dirs |-> dirs, files |-> files, raised |-> FALSE,
              attachments |-> <<>>]

\* _handle_existing_file raises typer.Exit(0)
handle_existing_file(files, dirs, path, overwrite, ask) ==
    PathExists(dirs, files, path) /\ ~overwrite /\ ~ask

\* save(...): what it leaves behind; the FileNotFoundError of a move is
\* not caught
save(opts, names, fails, ask, dirs, files) ==
    LET det == determine_output_path(opts.output, Filename, dirs, files)
        dirs1 == mkdir(det.dirs, Parent(det.path))
        dir == effective_attachment_dir(opts.attachment_dir, det.path)
        got == IF opts.download_attachments
               THEN download_attachments_internal(names, dir, dirs1, files)
               ELSE [dirs |-> dirs1, files |-> files, raised |-> FALSE,
                     attachments |-> <<>>]
        given == IF opts.download_attachments THEN Some(dir) ELSE None
    IN  IF fails = "message read"
        THEN [dirs |-> dirs, files |-> files, output_path |-> None,
              download_dir |-> None, exit_code |-> 1,
              stderr |-> <<>>, printed |-> <<"Error running himalaya">>]
        ELSE IF opts.download_attachments /\ fails = "attachment download"
        THEN [dirs |-> dirs1, files |-> files,
              output_path |-> Some(det.path), download_dir |-> given,
              exit_code |-> 1, stderr |-> <<>>,
              printed |-> <<"Error running himalaya">>]
        ELSE IF got.raised
        THEN [dirs |-> got.dirs, files |-> got.files,
              output_path |-> Some(det.path), download_dir |-> given,
              exit_code |-> 1, stderr |-> <<"Traceback">>,
              printed |-> <<>>]
        ELSE IF handle_existing_file(got.files, got.dirs, det.path,
                                     opts.overwrite, ask)
        THEN [dirs |-> got.dirs, files |-> got.files,
              output_path |-> Some(det.path), download_dir |-> given,
              exit_code |-> 0, stderr |-> <<>>,
              printed |-> <<"File already exists", "Aborted.">>]
        ELSE [dirs |-> got.dirs,
              files |-> WriteFile(got.files, det.path, "email"),
              output_path |-> Some(det.path), download_dir |-> given,
              exit_code |-> 0, stderr |-> <<>>,
              printed |-> (IF PathExists(got.dirs, got.files, det.path)
                              /\ ~opts.overwrite
                           THEN <<"File already exists">> ELSE <<>>)
                            \o <<"Email Saved">>]

(***************************************************************************)
(* convert_mcp_to_skill.py.  A configuration gives, for each field, what   *)
(* kind of value it holds, or "absent".                                    *)
(***************************************************************************)
\* _validate_config that does not look at env.
ValidateWithoutEnv(config) ==
    IF config.name = "absent" \/ config.command = "absent"
    THEN Some("MCP config missing required fields")
    ELSE IF config.args \notin {"absent", "list"}
    THEN Some("MCP config 'args' field must be a list")
    ELSE None

\* _validate_config: the ValueError it raises, or None
validate_config(config) ==
    IF config.name = "absent" \/ config.command = "absent"
    THEN Some("MCP config missing required fields")
    ELSE IF config.args \notin {"absent", "list"}
    THEN Some("MCP config 'args' field must be a list")
    ELSE IF config.env \notin {"absent", "dict"}
    THEN Some("MCP config 'env' field must be a dictionary")
    ELSE None

\* the names in output_dir after the converter ran and its output was
\* moved up, the temporary configuration removed by _cleanup
ConvertedNames ==
    {"mcp_to_skill.py", "SKILL.md", "executor.py", "mcp-config.json",
     "package.json"}

\* _add_documentation and _add_examples
DocumentationNames(with_templates) ==
    {"docs", "examples"}
      \cup (IF with_templates THEN {"README.md", "examples/test_skill.py"}
            ELSE {})

\* what the converter script wrote under generated_skill/ before it
\* failed: it makes the directory, then writes SKILL.md, executor.py,
\* mcp-config.json and package.json, in this order
ConverterLeft ==
    {{},
     {"generated_skill"},
     {"generated_skill", "generated_skill/SKILL.md"},
     {"generated_skill", "generated_skill/SKILL.md",
      "generated_skill/executor.py"},
     {"generated_skill", "generated_skill/SKILL.md",
      "generated_skill/executor.py", "generated_skill/mcp-config.json"},
     {"generated_skill", "generated_skill/SKILL.md",
      "generated_skill/executor.py", "generated_skill/mcp-config.json",
      "generated_skill/package.json"}}

\* generate(): the exception, the exit status and the names in output_dir;
\* left is what a failing converter wrote, which stays where it is
generate(config, dir, ok, with_templates, left) ==
    LET error == validate_config(config)
        before == IF dir = None THEN {} ELSE dir[1]
    IN  IF error # None
        THEN [raised |-> error, exit_code |-> None, dir |-> dir,
              printed |-> <<>>]
        ELSE IF ~ok
        THEN [raised |-> None, exit_code |-> Some(1),
              dir |-> Some(before \cup {"mcp_to_skill.py"} \cup left),
              printed |-> <<"MCP configuration validated",
                            "Error running converter">>]
        ELSE [raised |-> None, exit_code |-> None,
              dir |-> Some(before \cup ConvertedNames
                             \cup DocumentationNames(with_templates)),
              printed |-> <<"MCP configuration validated",
                            "Skill generated">>]

(***************************************************************************)
(* Inputs                                                                  *)
(***************************************************************************)
BoundedSeq(S, n) == UNION {[1..k -> S] : k \in 0..n}

W_Hi == <<"H", "i">>
W_ok == <<"o", "k", ".">>
W_no == <<"n", "o", "!", "\"", "U+201D">>
W_So == <<"S", "o">>
W_Go == <<"G", "o">>

\* f"{n:03d}" for 0 <= n < 1000
Pad03(n) == IF n < 100 THEN <<"0">> \o Pad02(n) ELSE IntToStr(n)

\* the timestamp text HH:MM:SS.mmm of a time in milliseconds
TimestampText(ms) ==
    Pad02(ms \div 3600000) \o <<":">> \o Pad02((ms \div 60000) % 60)
      \o <<":">> \o Pad02((ms \div 1000) % 60) \o <<".">> \o Pad03(ms % 1000)

\* the time the extractor reads from that text
Seconds(ms) == ts_to_seconds(TimestampText(ms))

TimestampTag(ms) == <<"<">> \o TimestampText(ms) \o <<">">>
Tag(ms, text) == TimestampTag(ms) \o TagOpen \o text \o TagClose
Cue(ms, first_line, second_line) ==
    [start |-> TimestampText(ms), raw |-> first_line \o <<NL>> \o second_line]

\* 00:00:00.000   Hi<00:00:00.500><c> ok.</c>
CueA == Cue(0, <<" ">>, W_Hi \o Tag(500, <<" ">> \o W_ok))
\* the rolling cue that repeats "ok." and goes on with "Go"
CueB ==
    Cue(500, W_Hi \o <<" ">> \o W_ok, W_ok \o Tag(3000, <<" ">> \o W_Go))
\* a cue without inline tags
CueC == [start |-> TimestampText(3000), raw |-> W_Hi \o <<" ">> \o W_ok]
\* a blank lead, an empty tagged word, a word at the time of "ok." and a
\* word with an earlier time
CueD ==
    Cue(500, <<" ">>,
        <<" ">> \o Tag(500, <<" ">>) \o Tag(500, <<" ">> \o W_So)
          \o Tag(0, <<" ">> \o W_Go))
\* tags on the only line of the cue
CueE ==
    [start |-> TimestampText(60000),
     raw |-> W_Hi \o Tag(60000, <<" ">> \o W_ok)]
\* a timestamp tag without its <c>, a <c> later in the line
CueF ==
    Cue(1000, <<"a">>,
        W_So \o TimestampTag(1500) \o <<"b">> \o TagOpen \o <<" ", "x">>
          \o TagClose)
\* a "<" in the text before the first timestamp tag
CueG ==
    Cue(1000, <<"a">>,
        <<"x", "<", "i", ">", "y">> \o Tag(1500, <<" ">> \o W_no))
\* digits and whitespace outside ASCII: the tag reads 00:00:02.001
CueH ==
    Cue(2001, <<"a">>,
        <<"U+00A0">> \o W_Hi \o <<"U+2003">>
          \o <<"<", "U+0660", "0", ":", "0", "U+FF10", ":", "0", "U+0662",
               ".", "0", "0", "U+06F1", ">">>
          \o TagOpen \o <<"\r", "\f">> \o W_ok \o <<"U+000B">> \o TagClose)

CueSet == {CueA, CueB, CueC, CueD, CueE, CueF, CueG, CueH}

WordSet == {W_Hi, W_ok, W_no}
\* 0.564 + 0.5 and 2.001 + 2.0 are times whose float gap exceeds 0.5 and 2.0
StartSet == {0, 564, 2001, 59500}
\* start times in whole seconds, below and from one hour on
WholeSecondSet == {0, 9, 59, 60, 61, 3599, 3600, 3661, 5999, 6000, 359999}
MillisecondSet == {0, 500, 999}
GapSet == {500, 2000, 2500}
PauseSet == {500, 2000}

\* the time in milliseconds of word i
RECURSIVE TsAt(_, _, _)
TsAt(start, gaps, i) ==
    IF i <= 1 THEN start ELSE TsAt(start, gaps, i - 1) + gaps[i]

\* 60 + 1.029 is a float below 61.029
UnitSet == {Sentinel, <<Some(Seconds(0)), <<"a">> >>,
            <<Some(Seconds(61029)), <<"b">> >>, <<None, <<"c">> >>}

ChapterSet == {[start_time |-> FloatOfInt(0), title |-> <<"A">>],
               [start_time |-> FloatOfInt(0), title |-> <<>>],
               [start_time |-> FloatOfMillis(5000), title |-> <<"B">>],
               [start_time |-> FloatOfMillis(61029), title |-> <<"C">>]}

L_a == <<"a">>
L_b == <<"[", "0", ":", "0", "5", "]", " ", "b">>
L_c == <<"[", "1", "1", ":", "0", "7", "]", " ", " ", "c", " ">>
L_d == <<"[", "0", ":", "5", "]", " ", "d">>

LineSet == {L_a, L_b, L_c, L_d}

\* the hints name each section after its line: S1, S2, ...
RECURSIVE SectionsFrom(_, _)
SectionsFrom(ls, i) ==
    IF \A l \in ls : l < i THEN <<>>
    ELSE (IF i \in ls
          THEN <<[line |-> i, title |-> <<"S">> \o IntToStr(i)]>>
          ELSE <<>>) \o SectionsFrom(ls, i + 1)

SectionsOf(ls) == SectionsFrom(ls, 1)

HintSet ==
    {[title |-> t, sections |-> SectionsOf(sl), paragraphs |-> pb,
      links |-> <<>>] :
        t \in {<<>>, <<"T">>},
        sl \in SUBSET (1..MaxLines),
        pb \in SUBSET (1..MaxLines)}

\* lines of every case of apply_structure's loop: text, a line that opens
\* with a marker, a blank line and a heading
L_blank == <<" ">>
L_h == <<"#", "#", " ", "H">>

MixedLineSet == {L_a, L_b, L_blank, L_h}

MixedHintSet ==
    {[title |-> t, sections |-> SectionsOf(sl), paragraphs |-> pb,
      links |-> <<>>] :
        t \in {<<>>, <<"T">>},
        sl \in SUBSET (1..MaxMixedLines),
        pb \in SUBSET (1..MaxMixedLines)}

\* lines of a document to enrich: plain text, a heading, a link, a
\* timestamp marker and a linkified timestamp
D_text == <<"a", "b", " ", "b">>
D_head == <<"#", " ", "a", "b">>
D_link == <<"[", "b", "]", "(", "w", ")", " ", "A", "b">>
D_mark == <<"[", "0", ":", "0", "5", "]", " ", "b">>
D_tslink == <<"[", "0", ":", "0", "5", "]", "(", "w", ")", " ", "5">>

DocLineSet == {D_text, D_head, D_link, D_mark, D_tslink}

\* the text of a file that holds the lines ls
RECURSIVE DocOf(_)
DocOf(ls) == IF ls = <<>> THEN <<>> ELSE Head(ls) \o <<NL>> \o DocOf(Tail(ls))

\* link-map entries: a phrase, a phrase inside it, the first phrase in
\* capitals with a URL that holds a pair of parentheses, a phrase of no document,
\* a digit of the markers, and the empty phrase
EntrySet == {[phrase |-> <<"a", "b">>, url |-> <<"u">>],
             [phrase |-> <<"b">>, url |-> <<"v">>],
             [phrase |-> <<"A", "B">>, url |-> <<"(", "v", ")", "b">>],
             [phrase |-> <<"z", "z">>, url |-> <<"y">>],
             [phrase |-> <<"5">>, url |-> <<"t">>],
             [phrase |-> <<>>, url |-> <<"e">>]}

\* lines to linkify: a marker at the start, in the middle, behind a
\* blank, alone on its line, and a bracket that is no marker
T_mid == <<"a", " ", "[", "0", ":", "0", "5", "]">>
T_blank == <<" ", "[", "0", ":", "0", "5", "]", " ", "b">>
T_bare == <<"[", "1", "1", ":", "0", "7", "]">>

TsLineSet == {L_a, L_b, L_d, T_mid, T_blank, T_bare}

VideoIdSet == {<<"v">>, <<"V", "2">>}

\* what git log prints: nothing, or one commit
LogSet ==
    {<<>>,
     <<"c", "o", "m", "m", "i", "t", " ", "a", "1", NL, "f", "i", "x", NL,
       NL, "-", "-", "-", "-", "-", "-", "-", "-", "-", "-", "-", "-", "-",
       "-", NL>>}

\* the diff of a file: two lines, three lines
FileBlockSet ==
    {<<"d", "i", "f", "f", " ", "-", "-", "g", "i", "t", " ", "a", "/",
       "f", " ", "b", "/", "f", NL, "+", "x", NL>>,
     <<"d", "i", "f", "f", " ", "-", "-", "g", "i", "t", " ", "a", "/",
       "g", " ", "b", "/", "g", NL, "-", "y", NL, "+", "z", "z", NL>>}

DiffSet == {join(<<>>, bs) : bs \in BoundedSeq(FileBlockSet, MaxFiles)}

\* small limits, a limit that cuts inside the segments, limits near the
\* length of the full text, the default
LimitSet == (1..MaxSmallLimit) \cup {25, 60, 130, CHAR_LIMIT}

\* --limit is type=int: zero and negative numbers are accepted
SplitLimitSet == (-2)..MaxSegLen
StartIndexSet == {-1, 0, 2}

\* what himalaya message read prints
ReadOutputSet == {"json string", "json object", "not json"}

\* what is typed at the prompt; "abort" is the end of input or an interrupt
AnswerSet == {"y", "n", "", "abort"}

ReturnCodeSet == {0, 1}

\* the events that console.print writes
IsPrint(ev) ==
    ev \in {"print Fetching", "print not found", "print preview",
            "print DRY-RUN MODE", "print Delete cancelled",
            "print Deleting", "print Email deleted", "print Delete failed"}

\* --output: none, a directory, a file, a new name without a suffix, a new
\* file in a new directory
OutputSet ==
    {None, Some(<<"out">>), Some(<<"out", "mail.md">>), Some(<<"new">>),
     Some(<<"fresh", "mail.md">>)}

SaveOptionsSet ==
    [output : OutputSet, overwrite : BOOLEAN,
     download_attachments : BOOLEAN,
     attachment_dir : {None, Some(<<"att">>)}]

\* the message has no attachment, one, or two of one name
AttachmentNamesSet == {<<>>, <<"a.png">>, <<"a.png", "a.png">>}

HimalayaFailsSet == {"", "message read", "attachment download"}

OldFile(path) == [path |-> path, content |-> "old"]

\* the file system before the run: nothing saved yet, an empty output
\* directory, earlier saves in it, an earlier save in the current directory
FileSystemSet ==
    {[dirs |-> {<<>>, <<"Downloads">>}, files |-> {}],
     [dirs |-> {<<>>, <<"Downloads">>, <<"out">>}, files |-> {}],
     [dirs |-> {<<>>, <<"Downloads">>, <<"out">>},
      files |-> {OldFile(<<"out", "mail.md">>), OldFile(<<"out", "1.md">>)}],
     [dirs |-> {<<>>, <<"Downloads">>}, files |-> {OldFile(<<"1.md">>)}]}

\* a configuration: name and command present or not, args and env absent
\* or holding a value of some type
ConfigSet ==
    [name : {"absent", "str"}, command : {"absent", "str"},
     args : {"absent", "list", "str", "null"},
     env : {"absent", "dict", "list", "null"}]

\* output_dir: not there, empty, or holding a file
SkillDirSet == {None, Some({}), Some({"old.txt"})}

\* what path.write_text(text) leaves of the file: the text; the file as it
\* was when it cannot be opened for writing; when the write fails after
\* the file was opened (which empties or creates it), a part of the text
\* from its start on, or nothing
WriteText(file, text, fails) ==
    CASE fails = "open error" -> {file}
      [] fails = "write error" ->
             {Some(SubSeq(text, 1, n)) : n \in 0..Len(text)}
                \ (IF text = <<>> THEN {} ELSE {Some(text)})
      [] OTHER -> {Some(text)}

NoHints ==
    [title |-> <<>>, sections |-> <<>>, paragraphs |-> {}, links |-> <<>>]

NoMain ==
    /\ video_id = None /\ in_place = FALSE
    /\ download = "" /\ description = ""
    /\ main_fails = "" /\ output_arg = FALSE
    /\ transcript_file = None /\ final_file = None

NoIo == stdout = <<>> /\ stderr = <<>> /\ exit_code = None

NoChunks ==
    /\ git_log = <<>> /\ raw_diff = <<>> /\ git_fails = FALSE
    /\ limit = 0 /\ chunk_index = 0 /\ chunks = <<>> /\ next_cmd = None

NoMail ==
    /\ execute = FALSE /\ verbose = FALSE /\ tty = FALSE
    /\ read_stdout = "" /\ answer = "" /\ delete_returncode = 0
    /\ events = <<>>

NoSave ==
    /\ options = <<>> /\ message_attachments = <<>>
    /\ himalaya_fails = "" /\ confirm_answer = FALSE
    /\ fs_dirs = {} /\ fs_files = {}
    /\ output_path = None /\ download_dir = None

NoSkill ==
    /\ mcp_config = <<>> /\ skill_dir = None
    /\ converter_ok = FALSE /\ templates_exist = FALSE /\ raised = None

NoSplit == split_seg = <<>> /\ split_start = 0 /\ split_fine = <<>>

NoTools ==
    /\ links_file = <<>> /\ NoChunks /\ NoMail /\ NoSave /\ NoSkill
    /\ NoSplit
    /\ apply_fails = ""

NoExt == NoTools /\ NoIo

(***************************************************************************)
(* Specifications: each function is applied to inputs drawn by Init        *)
(***************************************************************************)
InitParse ==
    /\ pc = "parse_vtt"
    /\ cues \in BoundedSeq(CueSet, MaxCues)
    /\ words = <<>> /\ pause_threshold = FloatOfInt(0) /\ timestamps = TRUE
    /\ sentences = <<>> /\ chapters = <<>> /\ md = <<>>
    /\ lines = <<>> /\ hints = NoHints /\ out = <<>>
    /\ NoMain
    /\ NoExt

CallParseVtt ==
    /\ pc = "parse_vtt"
    /\ words' = parse_vtt(cues)
    /\ pc' = "parsed"
    /\ UNCHANGED <<cues, pause_threshold, timestamps, sentences, chapters,
                   md, lines, hints, out>>
    /\ UNCHANGED mainVars
    /\ UNCHANGED extVars

SpecParse == InitParse /\ [][CallParseVtt]_vars

InitSeg ==
    /\ pc = "words_to_sentences"
    /\ cues = <<>>
    /\ \E n \in 0..MaxWords, start \in StartSet :
         \E gaps \in [2..n -> GapSet], texts \in [1..n -> WordSet] :
            words = [i \in 1..n |-> <<Seconds(TsAt(start, gaps, i)), texts[i]>>]
    /\ pause_threshold \in {FloatOfMillis(ms) : ms \in PauseSet}
    /\ timestamps \in BOOLEAN
    /\ sentences = <<>> /\ chapters = <<>> /\ md = <<>>
    /\ lines = <<>> /\ hints = NoHints /\ out = <<>>
    /\ NoMain
    /\ NoExt

CallWordsToSentences ==
    /\ pc = "words_to_sentences"
    /\ sentences' = words_to_sentences(words, pause_threshold, timestamps)
    /\ pc' = "segmented"
    /\ UNCHANGED <<cues, words, pause_threshold, timestamps, chapters, md,
                   lines, hints, out>>
    /\ UNCHANGED mainVars
    /\ UNCHANGED extVars

SpecSeg == InitSeg /\ [][CallWordsToSentences]_vars

InitFmt ==
    /\ pc = "format_markdown"
    /\ cues = <<>> /\ words = <<>> /\ pause_threshold = FloatOfInt(0)
    /\ timestamps = TRUE
    /\ sentences \in BoundedSeq(UnitSet, MaxUnits)
    /\ chapters \in BoundedSeq(ChapterSet, MaxChapters)
    /\ md = <<>>
    /\ lines = <<>> /\ hints = NoHints /\ out = <<>>
    /\ NoMain
    /\ NoExt

CallFormatMarkdown ==
    /\ pc = "format_markdown"
    /\ md' = format_markdown(sentences, chapters)
    /\ pc' = "formatted"
    /\ UNCHANGED <<cues, words, pause_threshold, timestamps, sentences,
                   chapters, lines, hints, out>>
    /\ UNCHANGED mainVars
    /\ UNCHANGED extVars

SpecFmt == InitFmt /\ [][CallFormatMarkdown]_vars

InitApply ==
    /\ pc = "apply_structure"
    /\ cues = <<>> /\ words = <<>> /\ pause_threshold = FloatOfInt(0)
    /\ timestamps = TRUE
    /\ sentences = <<>> /\ chapters = <<>> /\ md = <<>>
    /\ lines \in BoundedSeq(LineSet, MaxLines)
    /\ hints \in HintSet
    /\ out = <<>>
    /\ NoMain
    /\ NoExt

CallApplyStructure ==
    /\ pc = "apply_structure"
    /\ out' = apply_structure(lines, hints)
    /\ pc' = "applied"
    /\ UNCHANGED <<cues, words, pause_threshold, timestamps, sentences,
                   chapters, md, lines, hints>>
    /\ UNCHANGED mainVars
    /\ UNCHANGED extVars

SpecApply == InitApply /\ [][CallApplyStructure]_vars

\* apply_structure on input that holds blank lines and headings
InitApplyMixed ==
    /\ pc = "apply_structure"
    /\ cues = <<>> /\ words = <<>> /\ pause_threshold = FloatOfInt(0)
    /\ timestamps = TRUE
    /\ sentences = <<>> /\ chapters = <<>> /\ md = <<>>
    /\ lines \in BoundedSeq(MixedLineSet, MaxMixedLines)
    /\ hints \in MixedHintSet
    /\ out = <<>>
    /\ NoMain
    /\ NoExt

SpecApplyMixed == InitApplyMixed /\ [][CallApplyStructure]_vars

\* enrich_links.py main(): the steps that raise, reading the input or the
\* links (read_text, json.loads) and writing the output
EnrichFailSet == {"", "read error", "open error", "write error"}

\* enrich_links.py: md is the text of the input file, links_file the list
\* of the --links file; the result goes to the -o file or to stdout.  The
\* runs that raise have an empty link map; a write fails only with -o.
InitEnrich ==
    /\ apply_fails = ""
    /\ NoSplit
    /\ pc = "enrich"
    /\ cues = <<>> /\ words = <<>> /\ pause_threshold = FloatOfInt(0)
    /\ timestamps = TRUE
    /\ sentences = <<>> /\ chapters = <<>>
    /\ md \in {DocOf(ls) : ls \in BoundedSeq(DocLineSet, MaxDocLines)}
    /\ links_file \in BoundedSeq(EntrySet, MaxEntries)
    /\ main_fails \in EnrichFailSet
    /\ output_arg \in BOOLEAN
    /\ main_fails # "" => links_file = <<>>
    /\ main_fails \in {"open error", "write error"} => output_arg
    /\ lines = <<>> /\ hints = NoHints /\ out = <<>>
    /\ video_id = None /\ in_place = FALSE
    /\ download = "" /\ description = ""
    /\ transcript_file = None
    /\ final_file \in {None, Some(<<"o", "l", "d", NL>>)}
    /\ NoChunks
    /\ NoMail
    /\ NoSave
    /\ NoSkill
    /\ NoIo

\* enrich_links.py main(): read the input and the links, enrich, and
\* write the result to the -o file ("Wrote" on stderr) or to stdout; an
\* exception is not caught
EnrichLinksMain ==
    /\ pc = "enrich"
    /\ IF main_fails = "read error"
       THEN /\ UNCHANGED <<out, final_file, stdout>>
            /\ stderr' = Append(stderr, "Traceback")
            /\ exit_code' = Some(1)
            /\ pc' = "done"
       ELSE /\ out' = enrich(md, links_file)
            /\ IF output_arg
               THEN /\ \E left \in WriteText(final_file, out', main_fails) :
                          final_file' = left
                    /\ stderr' = Append(stderr, IF main_fails = ""
                                                THEN "Wrote" ELSE "Traceback")
                    /\ stdout' = stdout
                    /\ exit_code' = Some(IF main_fails = "" THEN 0 ELSE 1)
                    /\ pc' = IF main_fails = "" THEN "enriched" ELSE "done"
               ELSE /\ stdout' = IF out' = <<>> THEN stdout
                                  ELSE Append(stdout, out')
                    /\ UNCHANGED <<final_file, stderr>>
                    /\ exit_code' = Some(0)
                    /\ pc' = "enriched"
    /\ UNCHANGED <<cues, words, pause_threshold, timestamps, sentences,
                   chapters, md, lines, hints, links_file>>
    /\ UNCHANGED <<video_id, in_place, download, description, main_fails,
                   output_arg, transcript_file>>
    /\ UNCHANGED apply_fails
    /\ UNCHANGED splitVars
    /\ UNCHANGED chunkVars
    /\ UNCHANGED mailVars
    /\ UNCHANGED saveVars
    /\ UNCHANGED skillVars

SpecEnrich == InitEnrich /\ [][EnrichLinksMain]_vars

\* apply_structure.py: linkify_timestamps applied to a document
InitLinkify ==
    /\ pc = "linkify_timestamps"
    /\ cues = <<>> /\ words = <<>> /\ pause_threshold = FloatOfInt(0)
    /\ timestamps = TRUE
    /\ sentences = <<>> /\ chapters = <<>>
    /\ md \in {DocOf(ls) : ls \in BoundedSeq(TsLineSet, MaxTsLines)}
    /\ lines = <<>> /\ hints = NoHints /\ out = <<>>
    /\ video_id \in {Some(v) : v \in VideoIdSet}
    /\ in_place = FALSE /\ transcript_file = None /\ final_file = None
    /\ download = "" /\ description = ""
    /\ main_fails = "" /\ output_arg = FALSE
    /\ NoExt

CallLinkify ==
    /\ pc = "linkify_timestamps"
    /\ out' = linkify_timestamps(md, video_id[1])
    /\ pc' = "linkified"
    /\ UNCHANGED <<cues, words, pause_threshold, timestamps, sentences,
                   chapters, md, lines, hints>>
    /\ UNCHANGED mainVars
    /\ UNCHANGED extVars

SpecLinkify == InitLinkify /\ [][CallLinkify]_vars

\* args.output.write_text(md) of vtt2md.py: done, or failing before or
\* after it opened the file
WriteFailSet == {"", "open error", "write error"}

\* EmptyWarning that never warns.
NoWarning(ws) == <<>>

\* if not words: print("Warning: ...", file=sys.stderr)
EmptyWarning(ws) ==
    IF ws = <<>>
    THEN <<"Warning: no word-level timestamps found in VTT">>
    ELSE <<>>

\* _download_youtube when it does not return: the line on stderr
DownloadError ==
    CASE download = "no vtt" -> "Error: yt-dlp produced no .vtt files"
      [] download = "no info.json" ->
             "Error: yt-dlp produced no .info.json files"
      [] OTHER -> "Traceback"

\* print(f"TITLE: {title}"), print(f"CHAPTERS: {has_chapters}"), and the
\* description behind "---" when there is one
Metadata ==
    <<"TITLE", IF chapters # <<>> THEN "CHAPTERS: yes" ELSE "CHAPTERS: no">>
      \o (IF description # "" THEN <<"---", description>> ELSE <<>>)

\* main() from the words on: warn, segment, format, write the transcript
\* and print "Wrote" and the metadata.  A write_text that raises is not
\* caught: the traceback goes to stderr and the process ends with 1.
MainFromWords(ws) ==
    /\ sentences' = words_to_sentences(ws, pause_threshold, timestamps)
    /\ md' = format_markdown(sentences', chapters)
    /\ \E left \in WriteText(transcript_file, md', main_fails) :
          transcript_file' = left
    /\ stderr' = stderr \o EmptyWarning(ws)
                    \o <<IF main_fails = "" THEN "Wrote" ELSE "Traceback">>
    /\ stdout' = IF main_fails = "" THEN stdout \o Metadata ELSE stdout
    /\ exit_code' = Some(IF main_fails = "" THEN 0 ELSE 1)

\* One word at a start time of up to a hundred hours goes through the
\* segmenter and the formatter of vtt2md.py, and the transcript through
\* linkify_timestamps of apply_structure.py.
InitMarker ==
    /\ pc = "segment_and_format"
    /\ cues = <<>>
    /\ \E sec \in WholeSecondSet, ms \in MillisecondSet, w \in {W_Hi, W_ok} :
         words = << <<Seconds(sec * 1000 + ms), w>> >>
    /\ pause_threshold = FloatOfInt(2)
    /\ timestamps = TRUE
    /\ sentences = <<>> /\ chapters = <<>> /\ md = <<>>
    /\ lines = <<>> /\ hints = NoHints /\ out = <<>>
    /\ video_id \in {Some(v) : v \in VideoIdSet}
    /\ in_place = FALSE /\ transcript_file = None /\ final_file = None
    /\ download = "" /\ description = ""
    /\ main_fails \in WriteFailSet /\ output_arg = FALSE
    /\ NoExt

\* vtt2md.py main() from the words on that parse_vtt returned
SegmentAndFormat ==
    /\ pc = "segment_and_format"
    /\ MainFromWords(words)
    /\ pc' = IF main_fails = "" THEN "linkify_timestamps" ELSE "done"
    /\ UNCHANGED <<cues, words, pause_threshold, timestamps, chapters, lines,
                   hints, out>>
    /\ UNCHANGED <<video_id, in_place, download, description, main_fails,
                   output_arg, final_file>>
    /\ UNCHANGED toolVars

NextMarker == SegmentAndFormat \/ CallLinkify

SpecMarker == InitMarker /\ [][NextMarker]_vars

\* git_context_chunks.py: fine_grain_segments on one segment, one step for
\* every iteration of its while loop; --limit is any integer
InitSplit ==
    /\ apply_fails = ""
    /\ pc = "fine_grain_segments"
    /\ cues = <<>> /\ words = <<>> /\ pause_threshold = FloatOfInt(0)
    /\ timestamps = TRUE
    /\ sentences = <<>> /\ chapters = <<>> /\ md = <<>>
    /\ lines = <<>> /\ hints = NoHints /\ out = <<>>
    /\ NoMain
    /\ links_file = <<>>
    /\ git_log = <<>> /\ raw_diff = <<>> /\ git_fails = FALSE
    /\ limit \in SplitLimitSet
    /\ chunk_index = 0 /\ chunks = <<>> /\ next_cmd = None
    /\ NoMail /\ NoSave /\ NoSkill
    /\ split_seg \in BoundedSeq({"a", NL}, MaxSegLen)
    /\ split_start = 0
    /\ split_fine = <<>>
    /\ NoIo

SplitUnchanged ==
    /\ UNCHANGED apply_fails
    /\ UNCHANGED <<cues, words, pause_threshold, timestamps, sentences,
                   chapters, md, lines, hints, out, links_file>>
    /\ UNCHANGED mainVars
    /\ UNCHANGED chunkVars
    /\ UNCHANGED <<mailVars, saveVars, skillVars, ioVars>>

\* if len(seg) <= limit: fine.append(seg); continue
AppendWhole ==
    /\ pc = "fine_grain_segments"
    /\ Len(split_seg) <= limit
    /\ split_fine' = Append(split_fine, split_seg)
    /\ pc' = "returned"
    /\ UNCHANGED <<split_seg, split_start>>
    /\ SplitUnchanged

\* start = 0
EnterWhile ==
    /\ pc = "fine_grain_segments"
    /\ Len(split_seg) > limit
    /\ split_start' = 0
    /\ pc' = "while"
    /\ UNCHANGED <<split_seg, split_fine>>
    /\ SplitUnchanged

\* one iteration of "while start < len(seg)"; the model stops following a
\* run once fine holds MaxPieces pieces
WhileIteration ==
    /\ pc = "while"
    /\ split_start < Len(split_seg)
    /\ Len(split_fine) < MaxPieces
    /\ LET cut == Cut(split_seg, split_start, limit)
       IN  /\ split_fine' = Append(split_fine,
                                   Slice(split_seg, split_start, cut))
           /\ split_start' = cut
    /\ pc' = "while"
    /\ UNCHANGED split_seg
    /\ SplitUnchanged

\* the while condition fails
LeaveWhile ==
    /\ pc = "while"
    /\ split_start >= Len(split_seg)
    /\ pc' = "returned"
    /\ UNCHANGED splitVars
    /\ SplitUnchanged

NextSplit == AppendWhole \/ EnterWhile \/ WhileIteration \/ LeaveWhile

SpecSplit == InitSplit /\ [][NextSplit]_vars

\* git_context_chunks.py: one run prints one chunk, and the command it
\* prints for the next chunk is run in turn; the repository stays as it is
InitChunks ==
    /\ apply_fails = ""
    /\ NoSplit
    /\ pc = "git_context_chunks_main"
    /\ cues = <<>> /\ words = <<>> /\ pause_threshold = FloatOfInt(0)
    /\ timestamps = TRUE
    /\ sentences = <<>> /\ chapters = <<>> /\ md = <<>>
    /\ lines = <<>> /\ hints = NoHints /\ out = <<>>
    /\ NoMain
    /\ links_file = <<>>
    /\ git_log \in LogSet
    /\ raw_diff \in DiffSet
    /\ git_fails \in BOOLEAN
    /\ limit \in LimitSet
    /\ chunk_index \in StartIndexSet
    /\ chunks = <<>> /\ next_cmd = None
    /\ NoMail
    /\ NoSave
    /\ NoSkill
    /\ NoIo

\* NextChunkCommand that never repeats --limit.
NextChunkCommandNoLimit(next_index, char_limit) ==
    [chunk_index |-> next_index, limit |-> None]

\* the next-chunk command: --chunk-index, and --limit when it is not the
\* default
NextChunkCommand(next_index, char_limit) ==
    [chunk_index |-> next_index,
     limit |-> IF char_limit # CHAR_LIMIT THEN Some(char_limit) ELSE None]

\* main(argv); an entry of stdout is what stands between the two marker
\* lines, with the numbers of the markers: print(chunk, end="" if
\* chunk.endswith("\n") else "\n") puts a newline behind a chunk that does
\* not end with one
GitContextChunksMain ==
    /\ UNCHANGED apply_fails
    /\ UNCHANGED splitVars
    /\ pc = "git_context_chunks_main"
    /\ IF git_fails
       THEN /\ chunks' = <<>>
            /\ stdout' = stdout
            /\ stderr' = Append(stderr, "git failed")
            /\ next_cmd' = None
            /\ exit_code' = Some(1)
       ELSE LET built == build_chunks(git_log, raw_diff, limit)
            IN  /\ chunks' = built
                /\ IF built = <<>>
                   THEN /\ stdout' = stdout
                        /\ stderr' = Append(stderr, "No Git data available")
                        /\ next_cmd' = None
                        /\ exit_code' = Some(0)
                   ELSE IF chunk_index < 0 \/ chunk_index >= Len(built)
                   THEN /\ stdout' = stdout
                        /\ stderr' = Append(stderr, "out of range")
                        /\ next_cmd' = None
                        /\ exit_code' = Some(2)
                   ELSE /\ LET chunk == built[chunk_index + 1]
                           IN  stdout' =
                                 Append(stdout,
                                        [chunk |-> chunk_index + 1,
                                         total |-> Len(built),
                                         text |-> IF chunk # <<>>
                                                     /\ Last(chunk) = NL
                                                  THEN chunk
                                                  ELSE Append(chunk, NL)])
                        /\ IF chunk_index + 1 < Len(built)
                           THEN /\ next_cmd' = Some(NextChunkCommand(
                                                  chunk_index + 1, limit))
                                /\ stderr' = Append(stderr,
                                                    "Next chunk command")
                           ELSE next_cmd' = None /\ stderr' = stderr
                        /\ exit_code' = Some(0)
    /\ pc' = "exited"
    /\ UNCHANGED <<cues, words, pause_threshold, timestamps, sentences,
                   chapters, md, lines, hints, out, links_file, git_log,
                   raw_diff, git_fails, limit, chunk_index>>
    /\ UNCHANGED mainVars
    /\ UNCHANGED mailVars
    /\ UNCHANGED saveVars
    /\ UNCHANGED skillVars

\* the printed command is run: python3 <script> --chunk-index N [--limit L]
RunNextCommand ==
    /\ UNCHANGED apply_fails
    /\ UNCHANGED splitVars
    /\ pc = "exited"
    /\ next_cmd # None
    /\ chunk_index' = next_cmd[1].chunk_index
    /\ limit' = IF next_cmd[1].limit = None THEN CHAR_LIMIT
                ELSE next_cmd[1].limit[1]
    /\ pc' = "git_context_chunks_main"
    /\ UNCHANGED <<cues, words, pause_threshold, timestamps, sentences,
                   chapters, md, lines, hints, out, links_file, git_log,
                   raw_diff, git_fails, chunks, next_cmd>>
    /\ UNCHANGED mainVars
    /\ UNCHANGED mailVars
    /\ UNCHANGED saveVars
    /\ UNCHANGED skillVars
    /\ UNCHANGED ioVars

NextChunks == GitContextChunksMain \/ RunNextCommand

SpecChunks == InitChunks /\ [][NextChunks]_vars

\* email-delete.py: delete_email with any options, on a terminal or not,
\* himalaya printing a message, other JSON or none, and failing or not
InitDelete ==
    /\ apply_fails = ""
    /\ NoSplit
    /\ pc = "delete_email"
    /\ cues = <<>> /\ words = <<>> /\ pause_threshold = FloatOfInt(0)
    /\ timestamps = TRUE
    /\ sentences = <<>> /\ chapters = <<>> /\ md = <<>>
    /\ lines = <<>> /\ hints = NoHints /\ out = <<>>
    /\ NoMain
    /\ links_file = <<>>
    /\ NoChunks
    /\ execute \in BOOLEAN
    /\ verbose \in BOOLEAN
    /\ tty \in BOOLEAN
    /\ read_stdout \in ReadOutputSet
    /\ answer \in AnswerSet
    /\ delete_returncode \in ReturnCodeSet
    /\ events = <<>>
    /\ NoSave
    /\ NoSkill
    /\ NoIo

DeleteEmail ==
    /\ UNCHANGED apply_fails
    /\ UNCHANGED splitVars
    /\ pc = "delete_email"
    /\ LET run == delete_email(execute, verbose, tty, read_stdout, answer,
                               delete_returncode)
       IN  /\ events' = run.events
           /\ stdout' = stdout \o SelectSeq(run.events, IsPrint)
           /\ stderr' = stderr \o run.stderr
           /\ exit_code' = Some(run.exit_code)
    /\ pc' = "exited"
    /\ UNCHANGED <<cues, words, pause_threshold, timestamps, sentences,
                   chapters, md, lines, hints, out, links_file, execute,
                   verbose, tty, read_stdout, answer, delete_returncode>>
    /\ UNCHANGED mainVars
    /\ UNCHANGED chunkVars
    /\ UNCHANGED saveVars
    /\ UNCHANGED skillVars

SpecDelete == InitDelete /\ [][DeleteEmail]_vars

\* email_save.py: save with any options on a file system
InitSave ==
    /\ apply_fails = ""
    /\ NoSplit
    /\ pc = "save"
    /\ cues = <<>> /\ words = <<>> /\ pause_threshold = FloatOfInt(0)
    /\ timestamps = TRUE
    /\ sentences = <<>> /\ chapters = <<>> /\ md = <<>>
    /\ lines = <<>> /\ hints = NoHints /\ out = <<>>
    /\ NoMain
    /\ links_file = <<>>
    /\ NoChunks
    /\ NoMail
    /\ options \in SaveOptionsSet
    /\ message_attachments \in AttachmentNamesSet
    /\ himalaya_fails \in HimalayaFailsSet
    /\ confirm_answer \in BOOLEAN
    /\ \E fs \in FileSystemSet : fs_dirs = fs.dirs /\ fs_files = fs.files
    /\ output_path = None /\ download_dir = None
    /\ NoSkill
    /\ NoIo

Save ==
    /\ UNCHANGED apply_fails
    /\ UNCHANGED splitVars
    /\ pc = "save"
    /\ LET run == save(options, message_attachments, himalaya_fails,
                       confirm_answer, fs_dirs, fs_files)
       IN  /\ fs_dirs' = run.dirs
           /\ fs_files' = run.files
           /\ output_path' = run.output_path
           /\ download_dir' = run.download_dir
           /\ stdout' = stdout \o run.printed
           /\ stderr' = stderr \o run.stderr
           /\ exit_code' = Some(run.exit_code)
    /\ pc' = "exited"
    /\ UNCHANGED <<cues, words, pause_threshold, timestamps, sentences,
                   chapters, md, lines, hints, out, links_file, options,
                   message_attachments, himalaya_fails, confirm_answer>>
    /\ UNCHANGED mainVars
    /\ UNCHANGED chunkVars
    /\ UNCHANGED mailVars
    /\ UNCHANGED skillVars

SpecSave == InitSave /\ [][Save]_vars

\* convert_mcp_to_skill.py: MCPSkillGenerator(config, output_dir).generate()
InitGenerate ==
    /\ apply_fails = ""
    /\ NoSplit
    /\ pc = "generate"
    /\ cues = <<>> /\ words = <<>> /\ pause_threshold = FloatOfInt(0)
    /\ timestamps = TRUE
    /\ sentences = <<>> /\ chapters = <<>> /\ md = <<>>
    /\ lines = <<>> /\ hints = NoHints /\ out = <<>>
    /\ NoMain
    /\ links_file = <<>>
    /\ NoChunks
    /\ NoMail
    /\ NoSave
    /\ mcp_config \in ConfigSet
    /\ skill_dir \in SkillDirSet
    /\ converter_ok \in BOOLEAN
    /\ templates_exist \in BOOLEAN
    /\ raised = None
    /\ NoIo

Generate ==
    /\ UNCHANGED apply_fails
    /\ UNCHANGED splitVars
    /\ pc = "generate"
    /\ \E left \in ConverterLeft :
          LET run == generate(mcp_config, skill_dir, converter_ok,
                              templates_exist, left)
          IN  /\ raised' = run.raised
              /\ skill_dir' = run.dir
              /\ exit_code' = run.exit_code
              /\ stdout' = stdout \o run.printed
    /\ pc' = "exited"
    /\ UNCHANGED <<cues, words, pause_threshold, timestamps, sentences,
                   chapters, md, lines, hints, out, links_file, mcp_config,
                   converter_ok, templates_exist, stderr>>
    /\ UNCHANGED mainVars
    /\ UNCHANGED chunkVars
    /\ UNCHANGED mailVars
    /\ UNCHANGED saveVars

SpecGenerate == InitGenerate /\ [][Generate]_vars

(***************************************************************************)
(* The two scripts run one after the other: vtt2md.py writes the           *)
(* transcript that apply_structure.py reads                                *)
(***************************************************************************)
\* Hi ok. <pause> Go ; the same with So and an early Go ; no tagged cue
PipelineCues == {<<CueA, CueB>>, <<CueA, CueD, CueB>>, <<CueC>>}

PipelineChapters ==
    {<<>>,
     <<[start_time |-> FloatOfInt(0), title |-> <<"A">>]>>,
     <<[start_time |-> FloatOfInt(0), title |-> <<"A">>],
       [start_time |-> FloatOfInt(3), title |-> <<"B">>]>>}

PipelineLinks == {<<>>, <<[phrase |-> <<"g", "o">>, url |-> <<"u">>]>>}

PipelineHints ==
    {[title |-> t, sections |-> SectionsOf(sl), paragraphs |-> pb,
      links |-> lk] :
        t \in {<<>>, <<"T">>},
        sl \in SUBSET {1, 3, 5, 7},
        pb \in SUBSET {3, 5},
        lk \in PipelineLinks}

\* _download_youtube: ydl.download leaves both files in tmpdir, no .vtt
\* file, a .vtt file and no .info.json file, or an exception comes out of
\* it (ydl.download, read_text or json.loads raising)
DownloadSet == {"files", "no vtt", "no info.json", "raises"}

\* the description of info.json: missing or empty, or a text
DescriptionSet == {"", "D"}

\* A run of vtt2md.py that ends with an error is not followed by
\* apply_structure.py: its hints and options are left at one value.
InitPipeline ==
    /\ pc = "vtt2md_main"
    /\ cues \in PipelineCues
    /\ pause_threshold = FloatOfInt(2)
    /\ timestamps \in BOOLEAN
    /\ chapters \in PipelineChapters
    /\ download \in DownloadSet
    /\ main_fails \in WriteFailSet
    /\ output_arg = FALSE
    /\ \/ /\ download = "files" /\ main_fails = ""
          /\ hints \in PipelineHints
          /\ video_id \in {None, Some(<<"v">>)}
          /\ in_place \in BOOLEAN
       \/ /\ (download = "files") # (main_fails = "")
          /\ hints = NoHints /\ video_id = None /\ in_place = FALSE
    /\ description \in DescriptionSet
    /\ words = <<>> /\ sentences = <<>> /\ md = <<>>
    /\ lines = <<>> /\ out = <<>>
    /\ transcript_file = None /\ final_file = None
    /\ NoExt

\* vtt2md.py main(): download, parse, warn, segment, format, write, print
\* the metadata; main returns and the process ends with 0.  Without the
\* files of the download the process ends with 1 before it parses; when
\* write_text raises it ends with 1 and a traceback, nothing printed.
Vtt2mdMain ==
    /\ pc = "vtt2md_main"
    /\ IF download = "files"
       THEN /\ words' = parse_vtt(cues)
            /\ MainFromWords(words')
            /\ pc' = IF main_fails = "" THEN "apply_structure_main"
                     ELSE "done"
       ELSE /\ UNCHANGED <<words, sentences, md, transcript_file, stdout>>
            /\ stderr' = Append(stderr, DownloadError)
            /\ exit_code' = Some(1)
            /\ pc' = "done"
    /\ UNCHANGED <<cues, pause_threshold, timestamps, chapters, lines, hints,
                   out, video_id, in_place, download, description,
                   main_fails, output_arg, final_file>>
    /\ UNCHANGED toolVars

\* ApplyFiles that unlinks the input whatever the output path is.
ApplyFilesUnlinkAlways(input_file, output_file, same_path, left, fails) ==
    [input |-> None,
     output |-> IF same_path THEN output_file ELSE left,
     log |-> <<"Wrote", "Deleted">>,
     status |-> 0]

\* output_path.write_text(result), which left the file as "left", then
\* input_path.unlink() "if input_path.resolve() != output_path.resolve()";
\* with the same path the input file is the file written.  A write_text
\* that raises ends main; an unlink that raises comes after the write and
\* "Wrote".
ApplyFiles(input_file, output_file, same_path, left, fails) ==
    IF fails \in {"open error", "write error"}
    THEN [input |-> IF same_path THEN left ELSE input_file,
          output |-> IF same_path THEN output_file ELSE left,
          log |-> <<"Traceback">>,
          status |-> 1]
    ELSE IF same_path
    THEN [input |-> left, output |-> output_file,
          log |-> <<"Wrote">>, status |-> 0]
    ELSE IF fails = "unlink error"
    THEN [input |-> input_file, output |-> left,
          log |-> <<"Wrote", "Traceback">>, status |-> 1]
    ELSE [input |-> None, output |-> left,
          log |-> <<"Wrote", "Deleted">>, status |-> 0]

\* the steps between reading the input and writing the output that raise:
\* args.hints.read_text, json.loads, and the three transforms
BeforeWriteFailures == {"hints missing", "hints malformed", "transform error"}

\* an exception that main does not catch: the traceback goes to stderr and
\* the process exits with 1
Uncaught ==
    /\ stderr' = Append(stderr, "Traceback")
    /\ exit_code' = Some(1)
    /\ UNCHANGED <<transcript_file, final_file>>

\* apply_structure.py main(): read, transform, write, and delete the input
\* when the output is another file
ApplyStructureMain ==
    /\ pc = "apply_structure_main"
    /\ IF transcript_file = None
       THEN /\ lines' = lines /\ out' = out
            /\ Uncaught
       ELSE /\ lines' = splitlines(read_text(transcript_file[1]))
            /\ IF apply_fails \in BeforeWriteFailures
               THEN /\ out' = out
                    /\ Uncaught
               ELSE /\ out' = MainResult(lines', hints, video_id)
                    /\ \E left \in WriteText(IF in_place THEN transcript_file
                                              ELSE final_file,
                                              out', apply_fails) :
                          LET files == ApplyFiles(transcript_file, final_file,
                                                  in_place, left, apply_fails)
                          IN  /\ transcript_file' = files.input
                              /\ final_file' = files.output
                              /\ stderr' = stderr \o files.log
                              /\ exit_code' = Some(files.status)
    /\ pc' = "done"
    /\ UNCHANGED <<cues, words, pause_threshold, timestamps, sentences,
                   chapters, md, hints, video_id, in_place, download,
                   description, main_fails, output_arg, stdout>>
    /\ UNCHANGED toolVars

NextPipeline == Vtt2mdMain \/ ApplyStructureMain

SpecPipeline == InitPipeline /\ [][NextPipeline]_vars

ApplyFailSet ==
    {"", "open error", "write error", "unlink error"} \cup BeforeWriteFailures

ApplyMainHints ==
    {NoHints,
     [title |-> <<"T">>, sections |-> SectionsOf({1}), paragraphs |-> {2},
      links |-> <<>>]}

\* apply_structure.py alone: the input file may be missing, the output
\* file may exist, and any step of main may raise
InitApplyMain ==
    /\ pc = "apply_structure_main"
    /\ cues = <<>> /\ words = <<>> /\ pause_threshold = FloatOfInt(0)
    /\ timestamps = TRUE
    /\ sentences = <<>> /\ chapters = <<>> /\ md = <<>>
    /\ lines = <<>> /\ out = <<>>
    /\ hints \in ApplyMainHints
    /\ video_id \in {None, Some(<<"v">>)}
    /\ in_place \in BOOLEAN
    /\ download = "" /\ description = ""
    /\ main_fails = "" /\ output_arg = FALSE
    /\ transcript_file \in
         {None} \cup {Some(DocOf(ls)) : ls \in BoundedSeq({L_a, L_h}, MaxInputLines)}
    /\ final_file \in {None, Some(<<"o", "l", "d", NL>>)}
    /\ apply_fails \in ApplyFailSet
    /\ links_file = <<>>
    /\ NoChunks /\ NoMail /\ NoSave /\ NoSkill /\ NoSplit
    /\ NoIo

SpecApplyMain == InitApplyMain /\ [][ApplyStructureMain]_vars

(***************************************************************************)
(* Claims about parse_vtt (SpecParse)                                      *)
(***************************************************************************)

\* Every pair the cues with inline tags yield, in cue order, before
\* deduplication and sorting.
RECURSIVE ExtractedStream(_)
ExtractedStream(cs) ==
    IF cs = <<>> THEN <<>>
    ELSE (IF HasInlineTags(Head(cs).raw)
          THEN parse_rolling_cue(Head(cs).start, Head(cs).raw)
          ELSE <<>>) \o ExtractedStream(Tail(cs))

Range(s) == {s[i] : i \in 1..Len(s)}

FirstSeen(stream, pair) ==
    CHOOSE k \in 1..Len(stream) :
        stream[k] = pair /\ \A j \in 1..(k - 1) : stream[j] # pair

\* C1: parse_vtt returns every extracted (timestamp, word) pair exactly
\* once: no pair occurs at two positions of the output, and the output
\* holds exactly the pairs that were extracted.
C1_EachPairOnce ==
    pc = "parsed" =>
        /\ \A i, j \in 1..Len(words) : i # j => words[i] # words[j]
        /\ Range(words) = Range(ExtractedStream(cues))

\* Two cues yielded the same pair, and the output holds it.
C1_Witness ==
    /\ pc = "parsed"
    /\ \E k, l \in 1..Len(ExtractedStream(cues)) :
          /\ k < l
          /\ ExtractedStream(cues)[k] = ExtractedStream(cues)[l]
          /\ ExtractedStream(cues)[k] \in Range(words)

\* C2: the output of parse_vtt has non-decreasing timestamps, and words
\* with the same timestamp are in the order in which they were first seen.
C2_SortedStable ==
    pc = "parsed" =>
        /\ \A i \in 1..(Len(words) - 1) :
              ~FloatLess(words[i + 1][1], words[i][1])
        /\ \A i, j \in 1..Len(words) :
              (i < j /\ words[i][1] = words[j][1]) =>
                  FirstSeen(ExtractedStream(cues), words[i])
                      < FirstSeen(ExtractedStream(cues), words[j])

\* The cues yield a later word before an earlier one, and two different
\* words of the output share a timestamp.
C2_Witness ==
    /\ pc = "parsed"
    /\ \E k, l \in 1..Len(ExtractedStream(cues)) :
          /\ k < l
          /\ FloatLess(ExtractedStream(cues)[l][1],
                       ExtractedStream(cues)[k][1])
    /\ \E i, j \in 1..Len(words) : i < j /\ words[i][1] = words[j][1]

(***************************************************************************)
(* Claims about words_to_sentences (SpecSeg)                               *)
(***************************************************************************)

RECURSIVE CountChar(_, _)
CountChar(text, c) ==
    IF text = <<>> THEN 0
    ELSE (IF Head(text) = c THEN 1 ELSE 0) + CountChar(Tail(text), c)

\* The number of words of a unit: its text is the words joined by single
\* spaces, after the "[M:SS] " prefix when it has one (no word of WordSet
\* holds a space or starts with a bracket).
UnitWordCount(u) ==
    IF IsSentinel(u) THEN 0
    ELSE CountChar(u[2], " ") + 1 - (IF Head(u[2]) = "[" THEN 1 ELSE 0)

\* The index in the word list of the first word of unit k.
RECURSIVE FirstWordIndex(_, _)
FirstWordIndex(us, k) ==
    IF k <= 1 THEN 1
    ELSE FirstWordIndex(us, k - 1) + UnitWordCount(us[k - 1])

\* The unit that holds word i.
UnitOfWord(us, i) ==
    CHOOSE k \in 1..Len(us) :
        /\ ~IsSentinel(us[k])
        /\ FirstWordIndex(us, k) <= i
        /\ i < FirstWordIndex(us, k) + UnitWordCount(us[k])

\* ts - prev_ts of word i, as the floats give it
Gap(ws, i) == FloatSub(ws[i][1], ws[i - 1][1])

\* the gap of word i exceeds the threshold
LongGap(ws, i, threshold) == FloatLess(threshold, Gap(ws, i))

MmssPrefix(ts) == <<"[">> \o seconds_to_mmss(ts) \o <<"]", " ">>

ExampleWords ==
    << <<FloatOfMillis(0), <<"H", "e", "l", "l", "o">> >>,
       <<FloatOfMillis(500), <<"w", "o", "r", "l", "d", ".">> >>,
       <<FloatOfMillis(3000), <<"N", "e", "x", "t">> >>,
       <<FloatOfMillis(3400), <<"s", "e", "n", "t", "e", "n", "c", "e", ".">> >> >>

ExampleUnits ==
    << <<Some(FloatOfMillis(0)), <<"[", "0", ":", "0", "0", "]", " ", "H", "e", "l", "l",
                    "o", " ", "w", "o", "r", "l", "d", ".">> >>,
       Sentinel,
       <<Some(FloatOfMillis(3000)), <<"[", "0", ":", "0", "3", "]", " ", "N", "e", "x",
                       "t", " ", "s", "e", "n", "t", "e", "n", "c", "e",
                       ".">> >> >>

\* C3: for every word but the first, the word opens a unit that directly
\* follows a paragraph-break sentinel if and only if its timestamp exceeds
\* the previous word's by strictly more than pause_threshold; then the
\* previous word is in the unit right before the sentinel and the new
\* unit's start timestamp is the word's own.  The example with threshold
\* 2.0 gives [0:00] Hello world., sentinel, [0:03] Next sentence.
C3_BreakIffGapExceeds ==
    /\ words_to_sentences(ExampleWords, FloatOfMillis(2000), TRUE) = ExampleUnits
    /\ pc = "segmented" =>
         \A i \in 2..Len(words) :
            LET k == UnitOfWord(sentences, i)
                opens == /\ FirstWordIndex(sentences, k) = i
                         /\ k > 1 /\ IsSentinel(sentences[k - 1])
            IN  /\ opens <=> LongGap(words, i, pause_threshold)
                /\ opens =>
                     /\ sentences[k][1] = Some(words[i][1])
                     /\ k > 2 /\ UnitOfWord(sentences, i - 1) = k - 2

\* One word follows a gap above the threshold while words are buffered:
\* the float gap of 0.564 and 1.064 at the threshold 0.5.  Another follows
\* a gap equal to the threshold.
C3_Witness ==
    /\ pc = "segmented"
    /\ \E i, j \in 2..Len(words) :
          /\ LongGap(words, i, pause_threshold)
          /\ Millis(words[i][1]) - Millis(words[i - 1][1])
                = Millis(pause_threshold)
          /\ ~SentenceEnd(words[i - 1][2])
          /\ IsSentinel(sentences[UnitOfWord(sentences, i) - 1])
          /\ Gap(words, j) = pause_threshold

\* C4: with timestamps enabled every non-sentinel unit has a start
\* timestamp, that of its first word, and its text begins with the
\* "[M:SS] " prefix of that timestamp.
C4_EveryUnitPrefixed ==
    (pc = "segmented" /\ timestamps) =>
        \A k \in 1..Len(sentences) :
            ~IsSentinel(sentences[k]) =>
                LET first == words[FirstWordIndex(sentences, k)]
                IN  /\ sentences[k][1] = Some(first[1])
                    /\ StartsWith(sentences[k][2], MmssPrefix(first[1]))

(***************************************************************************)
(* Claims about format_markdown (SpecFmt)                                  *)
(***************************************************************************)

\* text.split("\n") without the piece after the final newline
RECURSIVE SplitLinesFrom(_, _)
SplitLinesFrom(text, cur) ==
    IF text = <<>> THEN (IF cur = <<>> THEN <<>> ELSE <<cur>>)
    ELSE IF Head(text) = NL THEN <<cur>> \o SplitLinesFrom(Tail(text), <<>>)
    ELSE SplitLinesFrom(Tail(text), Append(cur, Head(text)))

SplitLines(text) == SplitLinesFrom(text, <<>>)

NonBlank(ls) == SelectSeq(ls, LAMBDA l : l # <<>>)

IsH2(l) == StartsWith(l, <<"#", "#", " ">>)

IsTimed(u) == u[1] # None

TimedNonDecreasing(us) ==
    \A i, j \in 1..Len(us) :
        (i < j /\ IsTimed(us[i]) /\ IsTimed(us[j]))
            => ~FloatLess(us[j][1][1], us[i][1][1])

\* Unit k is the first timed unit whose timestamp is >= c's start_time.
DueAt(c, us, k) ==
    /\ IsTimed(us[k]) /\ ~FloatLess(us[k][1][1], c.start_time)
    /\ \A j \in 1..(k - 1) :
          IsTimed(us[j]) => FloatLess(us[j][1][1], c.start_time)

RECURSIVE LeadingH2(_)
LeadingH2(ls) ==
    IF ls # <<>> /\ IsH2(Head(ls)) THEN <<Head(ls)>> \o LeadingH2(Tail(ls))
    ELSE <<>>

\* The headings hs stand for exactly the chapters of chs due at unit k,
\* one heading a chapter, in ascending start_time order.
HeadingsAreDue(hs, chs, us, k) ==
    /\ Len(hs) = Cardinality({i \in 1..Len(chs) : DueAt(chs[i], us, k)})
    /\ \A i \in 1..Len(chs) :
          DueAt(chs[i], us, k) =>
              Cardinality({a \in 1..Len(hs) : hs[a] = HeadingLine(chs[i].title)})
                = Cardinality({j \in 1..Len(chs) :
                                  /\ DueAt(chs[j], us, k)
                                  /\ chs[j].title = chs[i].title})
    /\ \A a, b \in 1..Len(hs) :
          a < b =>
              \E i, j \in 1..Len(chs) :
                  /\ hs[a] = HeadingLine(chs[i].title)
                  /\ hs[b] = HeadingLine(chs[j].title)
                  /\ DueAt(chs[i], us, k) /\ DueAt(chs[j], us, k)
                  /\ ~FloatLess(chs[j].start_time, chs[i].start_time)

\* The non-blank lines evs are, for each non-sentinel unit from k on, the
\* headings of the chapters of chs due at it followed by the unit's text.
RECURSIVE PlacedFrom(_, _, _, _)
PlacedFrom(evs, chs, us, k) ==
    IF k > Len(us) THEN evs = <<>>
    ELSE IF IsSentinel(us[k]) THEN PlacedFrom(evs, chs, us, k + 1)
    ELSE LET hs == LeadingH2(evs)
             rest == SubSeq(evs, Len(hs) + 1, Len(evs))
         IN  /\ HeadingsAreDue(hs, chs, us, k)
             /\ rest # <<>> /\ Head(rest) = us[k][2]
             /\ PlacedFrom(Tail(rest), chs, us, k + 1)

ChaptersPlaced(text, chs, us) ==
    PlacedFrom(NonBlank(SplitLines(text)), chs, us, 1)

AllTitled(chs) == \A i \in 1..Len(chs) : chs[i].title # <<>>

\* C5: when every chapter has a title and the unit timestamps are
\* non-decreasing, each chapter yields at most one heading, placed (with
\* the others due there, in ascending start_time order) before the first
\* timed unit whose timestamp is >= its start_time; a chapter that starts
\* after every unit yields none.
C5_ChaptersBeforeFirstDueUnit ==
    (pc = "formatted" /\ AllTitled(chapters) /\ TimedNonDecreasing(sentences))
        => ChaptersPlaced(md, chapters, sentences)

\* Two chapters, given latest first, are due at the same unit.
C5_Witness ==
    /\ pc = "formatted" /\ AllTitled(chapters) /\ TimedNonDecreasing(sentences)
    /\ Len(chapters) >= 2
    /\ FloatLess(chapters[2].start_time, chapters[1].start_time)
    /\ \E k \in 1..Len(sentences) :
          DueAt(chapters[1], sentences, k) /\ DueAt(chapters[2], sentences, k)

Titled(chs) == SelectSeq(chs, LAMBDA c : c.title # <<>>)

\* C6: a chapter with an empty title yields no heading and the other
\* chapters are placed as if it were absent.
C6_EmptyTitleSkipped ==
    (pc = "formatted" /\ ~AllTitled(chapters) /\ TimedNonDecreasing(sentences))
        => ChaptersPlaced(md, Titled(chapters), sentences)

\* C7: the text format_markdown returns ends with exactly one newline, has
\* no blank line before it and never two blank lines in a row.
C7_NoDoubleBlankOneNewline ==
    pc = "formatted" =>
        /\ md # <<>> /\ Last(md) = NL
        /\ Len(md) >= 2 => md[Len(md) - 1] # NL
        /\ \A i \in 1..(Len(md) - 2) :
              ~(md[i] = NL /\ md[i + 1] = NL /\ md[i + 2] = NL)
        /\ ~(Len(md) >= 2 /\ md[1] = NL /\ md[2] = NL)

\* Two sentinels in a row between two sentences, and a chapter heading.
C7_Witness ==
    /\ pc = "formatted"
    /\ \E i \in 2..(Len(sentences) - 2) :
          /\ ~IsSentinel(sentences[i - 1])
          /\ IsSentinel(sentences[i]) /\ IsSentinel(sentences[i + 1])
          /\ ~IsSentinel(sentences[i + 2])
    /\ \E l \in Range(SplitLines(md)) : IsH2(l)

(***************************************************************************)
(* Claims about apply_structure (SpecApply)                                *)
(***************************************************************************)

PlainInput(ls) ==
    \A i \in 1..Len(ls) : rstrip(ls[i]) # <<>> /\ Head(ls[i]) # "#"

\* The lines that open a paragraph: the first, and every line the section
\* map or the paragraph-break set names.
ParaStarts(ls, h) ==
    {i \in 1..Len(ls) :
        i = 1 \/ i \in h.paragraphs
              \/ \E k \in 1..Len(h.sections) : h.sections[k].line = i}

\* The last line of the paragraph that line s opens.
ParaEnd(ls, h, s) ==
    CHOOSE e \in s..Len(ls) :
        /\ \A i \in (s + 1)..e : i \notin ParaStarts(ls, h)
        /\ e = Len(ls) \/ (e + 1) \in ParaStarts(ls, h)

HintedTitle(h, i) ==
    (CHOOSE k \in 1..Len(h.sections) : h.sections[k].line = i)

IsSectionLine(h, i) == \E k \in 1..Len(h.sections) : h.sections[k].line = i

\* The paragraph that line s opens, as one line: its lines joined by
\* single spaces, contrib(i) being what line i contributes.
ParaLine(ls, h, s, contrib(_)) ==
    join(<<" ">>, [n \in 1..(ParaEnd(ls, h, s) - s + 1) |-> contrib(s + n - 1)])

RECURSIVE StructuredFrom(_, _, _)
StructuredFrom(ls, h, i) ==
    IF i > Len(ls) THEN <<>>
    ELSE IF i \notin ParaStarts(ls, h) THEN StructuredFrom(ls, h, i + 1)
    ELSE (IF i > 1 THEN << <<>> >> ELSE <<>>)
         \o (IF IsSectionLine(h, i)
             THEN << <<"#", "#", " ">> \o h.sections[HintedTitle(h, i)].title,
                     <<>> >>
             ELSE <<>>)
         \o << ParaLine(ls, h, i,
                        LAMBDA j : IF j = i THEN rstrip(ls[j])
                                   ELSE strip_timestamp(rstrip(ls[j]))) >>
         \o StructuredFrom(ls, h, i + 1)

Structured(ls, h) ==
    (IF h.title # <<>> THEN << <<"#", " ">> \o h.title, <<>> >> ELSE <<>>)
    \o StructuredFrom(ls, h, 1)

ExampleHints ==
    [title |-> <<"T">>,
     sections |-> <<[line |-> 2, title |-> <<"S">>]>>,
     paragraphs |-> {}, links |-> <<>>]

\* # T, blank, a, blank, ## S, blank, [0:05] b c
ExampleStructured ==
    <<"#", " ", "T", NL, NL, "a", NL, NL, "#", "#", " ", "S", NL, NL,
      "[", "0", ":", "0", "5", "]", " ", "b", " ", "c", NL>>

\* C8: on non-blank, non-heading lines the output is '# title' and a blank
\* line when a title is given, then one line a paragraph, a paragraph
\* starting at the first line and at every line of the section map or the
\* paragraph-break set, its lines joined by single spaces, paragraphs one
\* blank line apart, a section paragraph after '## title' and a blank line.
C8_ParagraphStructure ==
    /\ apply_structure(<<L_a, L_b, L_c>>, ExampleHints) = ExampleStructured
    /\ (pc = "applied" /\ PlainInput(lines)) =>
          out = join(<<NL>>, Structured(lines, hints)) \o <<NL>>

\* A title, a section at a line after the first, and a paragraph of two
\* lines.
C8_Witness ==
    /\ pc = "applied" /\ PlainInput(lines)
    /\ hints.title # <<>>
    /\ \E i \in 2..(Len(lines) - 1) :
          /\ IsSectionLine(hints, i)
          /\ (i + 1) \notin ParaStarts(lines, hints)

\* What each input line is after its leading [M:SS] marker and the
\* whitespace that follows it.
AfterMarker(l) ==
    CASE l = L_a -> <<"a">>
      [] l = L_b -> <<"b">>
      [] l = L_c -> <<"c">>
      [] l = L_d -> L_d

HasMarker(l) == l \in {L_b, L_c}

ParagraphLines(text) ==
    SelectSeq(SplitLines(text), LAMBDA l : l # <<>> /\ Head(l) # "#")

RECURSIVE MarkedParasFrom(_, _, _)
MarkedParasFrom(ls, h, i) ==
    IF i > Len(ls) THEN <<>>
    ELSE IF i \notin ParaStarts(ls, h) THEN MarkedParasFrom(ls, h, i + 1)
    ELSE << ParaLine(ls, h, i,
                     LAMBDA j : IF j = i THEN rstrip(ls[j])
                                ELSE AfterMarker(ls[j])) >>
         \o MarkedParasFrom(ls, h, i + 1)

\* C9: in every paragraph of the output the first line keeps its leading
\* [M:SS] marker and every later line has lost its marker and the
\* whitespace after it.
C9_MarkerOnlyAtParagraphStart ==
    (pc = "applied" /\ PlainInput(lines)) =>
        ParagraphLines(out) = MarkedParasFrom(lines, hints, 1)

\* A paragraph whose first and second line both carry a marker.
C9_Witness ==
    /\ pc = "applied" /\ PlainInput(lines)
    /\ \E i \in 1..(Len(lines) - 1) :
          /\ i \in ParaStarts(lines, hints)
          /\ (i + 1) \notin ParaStarts(lines, hints)
          /\ HasMarker(lines[i]) /\ HasMarker(lines[i + 1])

(***************************************************************************)
(* Claims about chapters in apply_structure.py (SpecPipeline)              *)
(***************************************************************************)

\* Line i is a text line whose nearest non-blank line above is a heading:
\* the line format_markdown matched a chapter to.
RECURSIVE HeadingAbove(_, _)
HeadingAbove(ls, i) ==
    IF i < 1 THEN FALSE
    ELSE IF rstrip(ls[i]) = <<>> THEN HeadingAbove(ls, i - 1)
    ELSE IsH2(ls[i])

ChapterMatched(ls, i) ==
    /\ i \in 1..Len(ls)
    /\ rstrip(ls[i]) # <<>> /\ Head(ls[i]) # "#"
    /\ HeadingAbove(ls, i - 1)

H2Lines(text) == SelectSeq(SplitLines(text), IsH2)

\* C10 as claimed: when chapters are available, a line that has a
\* chapter-derived heading gets that heading and not the one the hints
\* supply for it.
C10_ChapterSectionsOverrideHints ==
    (pc = "done" /\ chapters # <<>>) =>
        \A k \in 1..Len(hints.sections) :
            ChapterMatched(lines, hints.sections[k].line) =>
                HeadingLine(hints.sections[k].title) \notin Range(H2Lines(out))

\* The headings of the output, from the input lines and the hints alone:
\* a heading line is kept, and a text line the section map names gets its
\* hinted heading.
RECURSIVE KeptAndHinted(_, _, _)
KeptAndHinted(ls, h, i) ==
    IF i > Len(ls) THEN <<>>
    ELSE (IF rstrip(ls[i]) = <<>> THEN <<>>
          ELSE IF Head(ls[i]) = "#" THEN <<rstrip(ls[i])>>
          ELSE IF IsSectionLine(h, i)
          THEN <<HeadingLine(h.sections[HintedTitle(h, i)].title)>>
          ELSE <<>>) \o KeptAndHinted(ls, h, i + 1)

\* C10, amended: apply_structure.py takes no chapter metadata; the
\* chapter headings already in its input are kept verbatim and in order,
\* and every section of the hints that names a non-blank, non-heading line
\* is inserted as well, also right after a chapter heading.
C10_HintSectionsBesideChapterHeadings ==
    pc = "done" => H2Lines(out) = KeptAndHinted(lines, hints, 1)

\* Chapters gave a line its heading and the hints name the same line.
C10_Witness ==
    /\ pc = "done" /\ chapters # <<>>
    /\ \E k \in 1..Len(hints.sections) :
          /\ ChapterMatched(lines, hints.sections[k].line)
          /\ HeadingLine(hints.sections[k].title) \in Range(H2Lines(out))


(***************************************************************************)
(* Claims about apply_structure on any input (SpecApplyMixed)              *)
(***************************************************************************)

\* C11: the text apply_structure returns ends with exactly one newline,
\* whatever the lines and hints are: there is no blank line at its end.
C11_SingleTrailingNewline ==
    pc = "applied" =>
        /\ out # <<>> /\ Last(out) = NL
        /\ Len(out) >= 2 => out[Len(out) - 1] # NL


(***************************************************************************)
(* Claims about enrich (SpecEnrich)                                        *)
(***************************************************************************)

\* The entries in the order in which enrich takes them, and the lines of
\* the document after the first k of them.
EnrichOrder == SortLinksFrom(<<>>, links_file)

LinesAfter(k) ==
    EntryLoop([lines |-> SplitKeepEndsFrom(md, <<>>), used_phrases |-> {}],
              SubSeq(EnrichOrder, 1, k)).lines

\* line with the n characters at position p made the text of a link to url
WithLink(line, p, n, url) ==
    SubSeq(line, 1, p - 1) \o <<"[">> \o SubSeq(line, p, p + n - 1)
      \o <<"]", "(">> \o url \o <<")">> \o SubSeq(line, p + n, Len(line))

\* the places <<line, position>>; the position behind the last character
\* is a place of the empty phrase
Places(ls) ==
    UNION {{<<i, p>> : p \in 1..(Len(ls[i]) + 1)} : i \in 1..Len(ls)}

\* the places <<line, position>> of an occurrence of e's phrase in old
\* whose replacement by a link to e's URL turns old into new
LinkedAt(old, new, e) ==
    {ip \in Places(old) :
        /\ PhraseAt(old[ip[1]], e.phrase, ip[2])
        /\ new = [old EXCEPT
                    ![ip[1]] = WithLink(@, ip[2], Len(e.phrase), e.url)]}

Changed(k) == LinesAfter(k) # LinesAfter(k - 1)

\* the spans [text](url) and [M:SS] of a line
Spans(line) ==
    LET protected == ProtectedFrom(line, 1)
    IN  {protected[n] : n \in 1..Len(protected)}

InsideSpan(line, p, n) ==
    \E sp \in Spans(line) : sp[1] <= p /\ p + n <= sp[2]

\* the occurrences of phrase in ls that are on no heading line and inside
\* no span
Unprotected(ls, phrase) ==
    {ip \in Places(ls) :
        /\ PhraseAt(ls[ip[1]], phrase, ip[2])
        /\ ~StartsWith(ls[ip[1]], <<"#">>)
        /\ ~InsideSpan(ls[ip[1]], ip[2], Len(phrase))}

\* the k-th entry taken: the lines before and after it, the places where
\* it was linked and the unprotected occurrences it found
Step(k) ==
    LET old == LinesAfter(k - 1)
        new == LinesAfter(k)
        e == EnrichOrder[k]
    IN  [old |-> old, new |-> new, entry |-> e,
         changed |-> new # old,
         links |-> IF new = old THEN {} ELSE LinkedAt(old, new, e),
         unprotected |-> Unprotected(old, e.phrase)]

Before(a, b) == a[1] < b[1] \/ (a[1] = b[1] /\ a[2] < b[2])

Reverse(q) == [n \in 1..Len(q) |-> q[Len(q) + 1 - n]]

DistinctLengths(q) ==
    \A m, n \in 1..Len(q) : m # n => Len(q[m].phrase) # Len(q[n].phrase)

\* q occurs in p, letter case aside
Contains(p, q) == \E n \in 1..Len(p) : PhraseAt(p, q, n)

\* C12: the phrases are applied longest first whatever the order of the
\* link map, and when a phrase P was linked, a shorter phrase Q that occurs
\* in P and is taken next is never linked inside the text or the URL of
\* the link made for P.
C12_ShorterNeverInsideLongerLink ==
    pc = "enriched" =>
        /\ DistinctLengths(links_file) => out = enrich(md, Reverse(links_file))
        /\ \A k \in 1..(Len(EnrichOrder) - 1) :
             LET P == EnrichOrder[k]
                 Q == EnrichOrder[k + 1]
             IN  (Len(Q.phrase) < Len(P.phrase) /\ Contains(P.phrase, Q.phrase))
                 => \A a \in Step(k).links, b \in Step(k + 1).links :
                        ~(/\ b[1] = a[1]
                          /\ b[2] >= a[2]
                          /\ b[2] + Len(Q.phrase)
                               <= a[2] + Len(P.phrase) + Len(P.url) + 4)

\* the entries taken before the k-th that hold its phrase, letter case
\* aside, and were linked
LinkedBefore(k) ==
    {j \in 1..(k - 1) :
        /\ LowerStr(EnrichOrder[j].phrase) = LowerStr(EnrichOrder[k].phrase)
        /\ Changed(j)}

\* C13: in one run every phrase, letter case aside, is linked at most
\* once; an entry that is linked replaces one occurrence only, the first
\* unprotected one in document order, and an entry whose phrase was linked
\* before changes nothing.
C13_EachPhraseLinkedOnceAtFirst ==
    pc = "enriched" =>
        \A k \in 1..Len(EnrichOrder) :
            LET st == Step(k)
            IN  /\ LinkedBefore(k) # {} => ~st.changed
                /\ st.changed =>
                     /\ st.links # {}
                     /\ \A a \in st.links :
                          /\ a \in st.unprotected
                          /\ \A b \in st.unprotected : ~Before(b, a)

\* "ab" twice in the document and twice, in two letter cases, in the map:
\* one link, at the first occurrence.
C13_Witness ==
    /\ pc = "enriched"
    /\ md = DocOf(<<D_text, D_text>>)
    /\ Len(links_file) = 2
    /\ links_file[1].phrase = <<"a", "b">>
    /\ links_file[2].phrase = <<"A", "B">>
    /\ out = WithLink(D_text, 1, 2, <<"u">>) \o <<NL>> \o D_text \o <<NL>>

\* The position of the parenthesis that closes a URL whose text goes on
\* at position j, depth pairs of parentheses being open inside it; 0 when
\* there is none.
RECURSIVE UrlClose(_, _, _)
UrlClose(line, j, depth) ==
    IF j > Len(line) THEN 0
    ELSE IF line[j] = "(" THEN UrlClose(line, j + 1, depth + 1)
    ELSE IF line[j] = ")"
    THEN (IF depth = 0 THEN j ELSE UrlClose(line, j + 1, depth - 1))
    ELSE UrlClose(line, j + 1, depth)

\* The end (exclusive) of the Markdown link [text](url) that starts at
\* position i of line, or 0: the URL runs to the parenthesis that closes
\* the one behind the text, the parentheses inside it being paired.
MarkdownLinkEnd(line, i) ==
    IF i > Len(line) \/ line[i] # "[" THEN 0
    ELSE LET j == IndexFrom(line, "]", i + 1)
         IN  IF j = 0 \/ j + 1 > Len(line) \/ line[j + 1] # "(" THEN 0
             ELSE IF UrlClose(line, j + 2, 0) = 0 THEN 0
             ELSE UrlClose(line, j + 2, 0) + 1

\* The end (exclusive) of the timestamp marker [M:SS] that starts at
\* position i of line, or 0.
TimestampMarkerEnd(line, i) ==
    IF i > Len(line) \/ line[i] # "[" THEN 0
    ELSE LET colons == {c \in (i + 2)..(Len(line) - 3) :
                          /\ line[c] = ":"
                          /\ \A d \in (i + 1)..(c - 1) : IsDigit(line[d])
                          /\ IsDigit(line[c + 1]) /\ IsDigit(line[c + 2])
                          /\ line[c + 3] = "]"}
         IN  IF colons = {} THEN 0 ELSE (CHOOSE c \in colons : TRUE) + 4

\* the n characters at position p of line lie inside a Markdown link or a
\* timestamp marker of the line
InsideMarkdown(line, p, n) ==
    \E i \in 1..Len(line) :
        \/ MarkdownLinkEnd(line, i) # 0 /\ i <= p
              /\ p + n <= MarkdownLinkEnd(line, i)
        \/ TimestampMarkerEnd(line, i) # 0 /\ i <= p
              /\ p + n <= TimestampMarkerEnd(line, i)

\* the occurrences of phrase in ls that are on no heading line, inside no
\* Markdown link and inside no timestamp marker
OutsideMarkdown(ls, phrase) ==
    {ip \in Places(ls) :
        /\ PhraseAt(ls[ip[1]], phrase, ip[2])
        /\ ~StartsWith(ls[ip[1]], <<"#">>)
        /\ ~InsideMarkdown(ls[ip[1]], ip[2], Len(phrase))}

\* C14: no link is made from an occurrence inside a Markdown link
\* [text](url), inside a timestamp marker [M:SS] or on a heading line; a
\* phrase whose occurrences are all in such places leaves the document as
\* it is, and a phrase not linked before that has an occurrence outside of
\* them is linked at one of these.
C14_ProtectedNeverLinked ==
    pc = "enriched" =>
        \A k \in 1..Len(EnrichOrder) :
            LET st == Step(k)
                old == st.old
                e == st.entry
                outside == OutsideMarkdown(old, e.phrase)
            IN  /\ \A a \in st.links :
                     /\ ~StartsWith(old[a[1]], <<"#">>)
                     /\ ~InsideMarkdown(old[a[1]], a[2], Len(e.phrase))
                /\ outside = {} => ~st.changed
                /\ (outside # {} /\ LinkedBefore(k) = {})
                     => /\ st.changed
                        /\ st.links # {}
                        /\ st.links \subseteq outside

\* the place of entry j of the link map in the order of processing: after
\* the longer phrases and after the earlier ones of the same length
Rank(j) ==
    Cardinality({n \in 1..Len(links_file) :
        \/ Len(links_file[n].phrase) > Len(links_file[j].phrase)
        \/ (Len(links_file[n].phrase) = Len(links_file[j].phrase) /\ n <= j)})

Without(q, j) == SubSeq(q, 1, j - 1) \o SubSeq(q, j + 1, Len(q))

\* entry j finds no unprotected occurrence when its turn comes
Unmatched(j) ==
    Unprotected(LinesAfter(Rank(j) - 1), links_file[j].phrase) = {}

\* C15: an entry without an unprotected occurrence leaves the document as
\* it is, and the run gives what it gives without that entry.
C15_UnmatchedEntryDropped ==
    pc = "enriched" =>
        \A j \in 1..Len(links_file) :
            Unmatched(j) =>
                /\ EnrichOrder[Rank(j)] = links_file[j]
                /\ ~Changed(Rank(j))
                /\ out = enrich(md, Without(links_file, j))

\* "zz" is in no line; "b" is linked as it is without the entry for "zz"
C15_Witness ==
    /\ pc = "enriched"
    /\ md = DocOf(<<D_text>>)
    /\ Len(links_file) = 2
    /\ links_file[1].phrase = <<"z", "z">>
    /\ links_file[2].phrase = <<"b">>
    /\ Unmatched(1)
    /\ out = WithLink(D_text, 2, 1, <<"v">>) \o <<NL>>


(***************************************************************************)
(* Claims about linkify_timestamps (SpecLinkify)                           *)
(***************************************************************************)

\* text without its whitespace
Squeeze(text) == SelectSeq(text, LAMBDA c : c \notin Whitespace)

\* a line whose very first characters are a marker [M:SS] gets the link
\* and the separator in its place; any other line stays as it is
LinkifiedLine(line, vid) ==
    IF MarkerEnd(line, 1) # 0
    THEN TimestampLink(line, 1, MarkerEnd(line, 1), vid)
           \o SubSeq(line, MarkerEnd(line, 1), Len(line))
    ELSE line

LinkifiedLines(text, vid) ==
    [n \in 1..Len(SplitLines(text)) |-> LinkifiedLine(SplitLines(text)[n], vid)]

\* C16: linkify_timestamps rewrites a marker [M:SS] if and only if it is
\* at the very beginning of a line, into
\* [M:SS](https://youtu.be/<video_id>?t=<N>) and the separator; markers at
\* other places and all other text stay (whitespace is not compared).
C16_LinkifyOnlyAtLineStart ==
    pc = "linkified" =>
        Squeeze(out) = Squeeze(join(<<NL>>, LinkifiedLines(md, video_id[1])))

\* a marker at the start of the first line and one in the middle of the
\* second: only the first becomes a link
C16_Witness ==
    /\ pc = "linkified"
    /\ md = DocOf(<<L_b, T_mid>>)
    /\ video_id = Some(<<"v">>)
    /\ out = <<"[", "0", ":", "0", "5", "]", "(">> \o YoutuBe
               \o <<"v", "?", "t", "=", "5", ")", " ", Separator, " ", "b", NL>>
               \o T_mid \o <<NL>>


(***************************************************************************)
(* Claims about vtt2md.py main (SpecPipeline)                              *)
(***************************************************************************)

\* vtt2md.py has run as far as the parser and nothing has run after it: it
\* ended well, or its write_text raised
ParsedRun ==
    /\ download = "files"
    /\ pc = "apply_structure_main" \/ (pc = "done" /\ main_fails # "")

Warning == "Warning: no word-level timestamps found in VTT"

\* C17: when parse_vtt yields no word, vtt2md.py warns on stderr,
\* words_to_sentences returns the empty list and format_markdown renders
\* it as one newline; the output file is written with it and the process
\* ends with status 0, unless write_text itself raises, which ends a run
\* with words in the same way: the status is 0 exactly when the write is
\* done, whatever the words.  With words there is no warning.
C17_NoWordsIsNotFatal ==
    ParsedRun =>
        /\ exit_code = Some(0) <=> main_fails = ""
        /\ words = <<>> =>
             /\ Warning \in Range(stderr)
             /\ sentences = <<>>
             /\ md = <<NL>>
             /\ main_fails = "" =>
                   /\ transcript_file = Some(<<NL>>)
                   /\ stderr = <<Warning, "Wrote">>
             /\ main_fails # "" =>
                   /\ stderr = <<Warning, "Traceback">>
                   /\ transcript_file \in {None, Some(<<>>)}
        /\ words # <<>> => Warning \notin Range(stderr)

\* the VTT file holds cues but none with inline tags; chapters are given
C17_Witness ==
    /\ pc = "apply_structure_main"
    /\ cues # <<>> /\ words = <<>> /\ chapters # <<>>
    /\ stderr = <<"Warning: no word-level timestamps found in VTT", "Wrote">>
    /\ transcript_file = Some(<<NL>>)
    /\ exit_code = Some(0)


(***************************************************************************)
(* Claims about git_context_chunks.py (SpecChunks)                         *)
(***************************************************************************)

\* the commits section, the header of the staged changes and the diff (or
\* the note that nothing is staged)
FullText ==
    get_recent_commits(git_log) \o StagedHeader
      \o (IF strip(raw_diff) # <<>> THEN raw_diff ELSE NoStagedChanges)

\* the parts joined in order
RECURSIVE Concat(_)
Concat(parts) ==
    IF parts = <<>> THEN <<>>
    ELSE IF Len(parts) = 1 THEN parts[1]
    ELSE LET half == Len(parts) \div 2
         IN  Concat(SubSeq(parts, 1, half))
               \o Concat(SubSeq(parts, half + 1, Len(parts)))

\* C18: the chunks of build_chunks are an ordered partition of the full
\* text: none is empty, none is longer than the limit, joined in order
\* they are the full text, and a full text within the limit is one chunk.
C18_ChunksPartitionFullText ==
    (pc = "exited" /\ ~git_fails) =>
        /\ chunks # <<>>
        /\ \A n \in 1..Len(chunks) :
              Len(chunks[n]) >= 1 /\ Len(chunks[n]) <= limit
        /\ Concat(chunks) = FullText
        /\ Len(FullText) <= limit => Len(chunks) = 1

\* two files are staged and the text is cut into chunks, one of them
\* before the limit, at a newline, and one at the limit
C18_Witness ==
    /\ pc = "exited" /\ ~git_fails
    /\ Len(split_diff_by_file(raw_diff)) = 2
    /\ limit = 25
    /\ Len(chunks) > 2
    /\ \E n \in 1..(Len(chunks) - 1) :
          Len(chunks[n]) < limit /\ Last(chunks[n]) = NL
    /\ \E n \in 1..(Len(chunks) - 1) :
          Len(chunks[n]) = limit /\ Last(chunks[n]) # NL

\* the texts that were printed to stdout between the markers, in the order
\* of printing
PrintedTexts == [k \in 1..Len(stdout) |-> stdout[k].text]

\* text is the chunk as a whole number of lines: the chunk itself when it
\* ends with a newline, else the chunk and the newline that ends its last
\* line
ShowsChunk(text, chunk) ==
    /\ SubSeq(text, 1, Len(chunk)) = chunk
    /\ Len(text) = Len(chunk) + (IF chunk[Len(chunk)] = NL THEN 0 ELSE 1)
    /\ text[Len(text)] = NL

\* the first n outputs are the first n chunks, in order
PrintedInOrder(n) ==
    /\ Len(stdout) = n
    /\ \A k \in 1..n :
          /\ stdout[k].chunk = k
          /\ stdout[k].total = Len(chunks)
          /\ ShowsChunk(PrintedTexts[k], chunks[k])

\* what an invocation that has ended leaves behind
AfterRun ==
    (pc = "exited" /\ ~git_fails) =>
        IF chunk_index < 0 \/ chunk_index >= Len(chunks)
        THEN /\ exit_code = Some(2)
             /\ stdout = <<>>
             /\ next_cmd = None
        ELSE /\ exit_code = Some(0)
             /\ stdout # <<>>
             /\ ShowsChunk(Last(stdout).text, chunks[chunk_index + 1])
             /\ Last(stdout).chunk = chunk_index + 1
             /\ Last(stdout).total = Len(chunks)
             /\ next_cmd # None <=> chunk_index + 1 < Len(chunks)
             /\ next_cmd # None =>
                   /\ next_cmd[1].chunk_index = chunk_index + 1
                   /\ next_cmd[1].limit =
                         (IF limit # CHAR_LIMIT THEN Some(limit) ELSE None)
             /\ Len(stdout) = chunk_index + 1 =>
                   /\ PrintedInOrder(chunk_index + 1)
                   /\ next_cmd = None => PrintedInOrder(Len(chunks))

\* an invocation started by the printed command computes the chunk list
\* of the invocation before it
SameChunkList ==
    (pc = "git_context_chunks_main" /\ chunks # <<>>
       /\ pc' = "exited") => chunks' = chunks

\* running the printed command starts the script at the next index, which
\* is still an index of the chunk list, with the limit of the run before
NextIndexInRange ==
    (pc = "exited" /\ pc' = "git_context_chunks_main") =>
        /\ chunk_index' = chunk_index + 1
        /\ chunk_index' < Len(chunks)
        /\ limit' = limit

\* C19: started at chunk index 0 and continued with each printed
\* next-chunk command, the script prints the chunks 0..n-1 in order, each
\* once (between its markers, as whole lines: a chunk that does not end
\* with a newline is followed by one), and then prints no further
\* command: the command is printed iff
\* index+1 < n, names index+1 and repeats a non-default --limit, so every
\* invocation computes the same chunks; an index outside 0..n-1 prints no
\* chunk and returns 2.  The walk ends because each command raises the
\* index by one and stays below n, and the run that prints no command has
\* printed every chunk.
C19_NextCommandWalksAllChunks ==
    /\ []AfterRun
    /\ [][SameChunkList /\ NextIndexInRange]_vars

\* a walk with a non-default limit that printed three or more chunks and
\* ended; one chunk was cut at the limit and printed with a newline
\* behind it, one ends with a newline and was printed as it is
C19_Witness ==
    /\ pc = "exited" /\ ~git_fails
    /\ limit # CHAR_LIMIT
    /\ Len(chunks) >= 3
    /\ PrintedInOrder(Len(chunks))
    /\ \E k \in 1..Len(chunks) : PrintedTexts[k] = Append(chunks[k], NL)
    /\ \E k \in 1..Len(chunks) : PrintedTexts[k] = chunks[k]
    /\ next_cmd = None
    /\ exit_code = Some(0)

(***************************************************************************)
(* Claims about email-delete.py (SpecDelete)                               *)
(***************************************************************************)
DeleteIssued == "himalaya envelope delete" \in Range(events)

\* a comes before b in the events
Precedes(a, b) ==
    \E i, j \in 1..Len(events) :
        i < j /\ events[i] = a /\ events[j] = b

\* C20: the delete command is issued only after the message was read and
\* its preview shown, only with execute, and on a terminal only after the
\* user said yes; without execute, without a message or after another
\* answer it is never issued.
C20_DeleteOnlyAfterPreviewAndConsent ==
    /\ DeleteIssued =>
          /\ read_stdout = "json string"
          /\ Precedes("himalaya message read", "print preview")
          /\ Precedes("print preview", "himalaya envelope delete")
          /\ execute
          /\ tty => (answer = "y"
                      /\ Precedes("confirm", "himalaya envelope delete"))
    /\ (~execute \/ read_stdout # "json string" \/ (tty /\ answer # "y"))
          => ~DeleteIssued

\* the message was deleted on a terminal after a yes
C20_Witness ==
    /\ pc = "exited"
    /\ DeleteIssued
    /\ execute /\ tty /\ answer = "y"
    /\ exit_code = Some(0)

(***************************************************************************)
(* Claims about email_save.py (SpecSave)                                   *)
(***************************************************************************)
\* save came to the attachment step: the message was read
ReachedAttachments == pc = "exited" /\ himalaya_fails # "message read"

\* C21: save downloads attachments iff download_attachments is true, into
\* attachment_dir when one is given, else into the parent of the output
\* path: the current directory without --output, the output directory when
\* --output names a directory.
C21_AttachmentDirectory ==
    ReachedAttachments =>
        /\ download_dir # None <=> options.download_attachments
        /\ download_dir # None =>
              /\ options.attachment_dir # None
                    => download_dir = options.attachment_dir
              /\ options.attachment_dir = None =>
                    /\ download_dir = Some(Parent(output_path[1]))
                    /\ options.output = None => download_dir = Some(<<>>)
                    /\ options.output \in {Some(<<"out">>), Some(<<"new">>)}
                          => download_dir = options.output
        /\ (download_dir # None /\ message_attachments # <<>>
              /\ himalaya_fails = "")
              => \A n \in 1..Len(message_attachments) :
                    FileExists(fs_files, Append(download_dir[1],
                                                message_attachments[n]))
        /\ download_dir = None
              => ~\E f \in fs_files : f.content = "attachment"

\* an attachment was put into the output directory that --output named
C21_Witness ==
    /\ ReachedAttachments
    /\ options.output = Some(<<"out">>)
    /\ options.attachment_dir = None
    /\ download_dir = Some(<<"out">>)
    /\ FileExists(fs_files, <<"out", "a.png">>)
    /\ FileExists(fs_files, <<"out", "1.md">>)

\* the output file exists, overwrite is false and the user declines
DeclinesOverwrite ==
    /\ pc = "save" /\ himalaya_fails = ""
    /\ FileExists(fs_files,
                  determine_output_path(options.output, Filename, fs_dirs,
                                        fs_files).path)
    /\ ~options.overwrite
    /\ ~confirm_answer

\* C30: when the output file exists, overwrite is false and the user
\* declines, save ends with exit code 0 and the file system is as it was:
\* the file keeps its content, no attachment was downloaded or moved.
C30_DeclineChangesNothing ==
    [][DeclinesOverwrite =>
         (exit_code' = Some(0) /\ UNCHANGED <<fs_dirs, fs_files>>)]_vars

(***************************************************************************)
(* Claims about convert_mcp_to_skill.py (SpecGenerate)                     *)
(***************************************************************************)
\* the configuration is one the claim calls invalid
InvalidConfig(config) ==
    \/ config.name = "absent"
    \/ config.command = "absent"
    \/ config.args \notin {"absent", "list"}
    \/ config.env \notin {"absent", "dict"}

\* C22: a configuration without name or command, with args that is not a
\* list, or with an env that is there and not a dictionary makes generate
\* raise ValueError before output_dir or a file in it is created; any
\* other configuration is validated and the directory is made.
C22_InvalidConfigRaisesBeforeAnyFile ==
    /\ [][(pc = "generate" /\ InvalidConfig(mcp_config)) =>
            (raised' # None /\ skill_dir' = skill_dir
               /\ stdout' = stdout /\ exit_code' = None)]_vars
    /\ [](pc = "exited" =>
            (raised # None <=> InvalidConfig(mcp_config)))
    /\ []((pc = "exited" /\ raised = None) =>
            (skill_dir # None /\ "mcp_to_skill.py" \in skill_dir[1]))

\* an env that is a list stopped generate, and there is no output_dir
C22_Witness ==
    /\ pc = "exited"
    /\ mcp_config.name = "str" /\ mcp_config.command = "str"
    /\ mcp_config.args = "list" /\ mcp_config.env = "list"
    /\ raised = Some("MCP config 'env' field must be a dictionary")
    /\ skill_dir = None

(***************************************************************************)
(* Claims about the lines of a cue (SpecParse)                             *)
(***************************************************************************)
\* the words of one line of a cue: the text before its first tag at the
\* start time of the cue, each tagged word at its own time
LineWords(cue_start, line) ==
    LET tags == {i \in 1..Len(line) : TimestampTagAt(line, i)}
        first == CHOOSE i \in tags : \A j \in tags : i <= j
    IN  IF tags = {} THEN {}
        ELSE (IF strip(SubSeq(line, 1, first - 1)) # <<>>
              THEN {<<ts_to_seconds(cue_start),
                      strip(SubSeq(line, 1, first - 1))>>}
              ELSE {})
               \cup Range(TaggedWords(line, 1))

\* C23: every cue with inline tags contributes all of its words, the
\* leading word at the start time of the cue and each tagged word at its
\* own time, whichever line of the cue holds the tags.
C23_EveryTaggedLineContributes ==
    pc = "parsed" =>
        \A k \in 1..Len(cues) :
            \A i \in 1..Len(split(cues[k].raw, NL)) :
                LineWords(cues[k].start, split(cues[k].raw, NL)[i])
                    \subseteq Range(words)

(***************************************************************************)
(* Claims about the units of words_to_sentences (SpecSeg)                  *)
(***************************************************************************)
\* the text of a unit without its "[M:SS] " prefix
UnitText(u) ==
    IF timestamps /\ u[1] # None
    THEN SubSeq(u[2], Len(MmssPrefix(u[1][1])) + 1, Len(u[2]))
    ELSE u[2]

\* text.split(" ")
RECURSIVE SplitOnSpace(_, _)
SplitOnSpace(text, word) ==
    IF text = <<>> THEN <<word>>
    ELSE IF Head(text) = " " THEN <<word>> \o SplitOnSpace(Tail(text), <<>>)
    ELSE SplitOnSpace(Tail(text), Append(word, Head(text)))

\* the words of the units, in the order of the units
RECURSIVE UnitWords(_)
UnitWords(us) ==
    IF us = <<>> THEN <<>>
    ELSE (IF IsSentinel(Head(us)) THEN <<>>
          ELSE SplitOnSpace(UnitText(Head(us)), <<>>))
           \o UnitWords(Tail(us))

\* the word ends with ".", "!" or "?" and then only closing quotes or
\* brackets
TerminalWord(word) ==
    \E p \in 1..Len(word) :
        /\ word[p] \in {".", "!", "?"}
        /\ \A q \in (p + 1)..Len(word) :
              word[q] \in {"\"", "'", "U+2019", "U+201D", ")"}

LastWordIndex(us, k) == FirstWordIndex(us, k) + UnitWordCount(us[k]) - 1

\* C24: the words of the units, in order, are the input words, none lost,
\* doubled or moved; a unit ends only after a sentence-terminal word,
\* before a word that follows a pause, or at the end of the input; and a
\* sentence-terminal word is only ever the last word of its unit.
C24_WordsConservedAndCutAtEnds ==
    pc = "segmented" =>
        /\ UnitWords(sentences) = [i \in 1..Len(words) |-> words[i][2]]
        /\ \A k \in 1..Len(sentences) :
              ~IsSentinel(sentences[k]) =>
                  LET first == FirstWordIndex(sentences, k)
                      last == LastWordIndex(sentences, k)
                  IN  /\ first <= last
                      /\ \/ TerminalWord(words[last][2])
                         \/ last = Len(words)
                         \/ LongGap(words, last + 1, pause_threshold)
                      /\ \A i \in first..(last - 1) :
                            ~TerminalWord(words[i][2])

\* a unit was cut by a pause, one by a terminal word, and the last words
\* were flushed at the end of the input
C24_Witness ==
    /\ pc = "segmented"
    /\ Len(words) = MaxWords
    /\ ~TerminalWord(words[Len(words)][2])
    /\ \E i \in 1..(Len(words) - 1) : TerminalWord(words[i][2])
    /\ \E i \in 2..Len(words) :
          LongGap(words, i, pause_threshold) /\ ~TerminalWord(words[i - 1][2])
    /\ UnitWords(sentences) = [i \in 1..Len(words) |-> words[i][2]]

(***************************************************************************)
(* Claims about the cases of apply_structure's loop (SpecApplyMixed)       *)
(***************************************************************************)
\* The headings and paragraphs the lines from i on add to blocks, one case
\* per line: blank, heading, section line, paragraph break, running text;
\* open says that the last block is a paragraph which text can join.
RECURSIVE ExpectedBlocks(_, _, _)
ExpectedBlocks(blocks, open, i) ==
    IF i > Len(lines) THEN blocks
    ELSE LET text == rstrip(lines[i])
         IN  IF text = <<>> THEN ExpectedBlocks(blocks, open, i + 1)
             ELSE IF Head(text) = "#"
             THEN ExpectedBlocks(Append(blocks, text), FALSE, i + 1)
             ELSE IF IsSectionLine(hints, i)
             THEN ExpectedBlocks(
                      blocks \o << <<"#", "#", " ">>
                                 \o hints.sections[HintedTitle(hints, i)].title,
                                text>>,
                      TRUE, i + 1)
             ELSE IF i \in hints.paragraphs \/ ~open
             THEN ExpectedBlocks(Append(blocks, text), TRUE, i + 1)
             ELSE ExpectedBlocks(
                      [blocks EXCEPT ![Len(blocks)] =
                          @ \o <<" ">> \o strip_timestamp(text)],
                      TRUE, i + 1)

ExpectedTitle ==
    IF hints.title # <<>> THEN << <<"#", " ">> \o hints.title >> ELSE <<>>

\* C25: every line falls under one case, in the order blank (nothing, and
\* its hints are without effect), heading (kept as it is between blank
\* lines, a section hint adds no second heading), section line (its
\* "## title" heading), paragraph break (a break, no heading); a line in
\* both the section map and the break set gets one heading and no second
\* blank line; line numbers count the blank lines too.
C25_OneCasePerLine ==
    pc = "applied" =>
        LET ls == SplitLines(out)
        IN  /\ NonBlank(ls) = ExpectedTitle \o ExpectedBlocks(<<>>, FALSE, 1)
            /\ \A j \in 1..(Len(ls) - 1) :
                  ~(ls[j] = <<>> /\ ls[j + 1] = <<>>)
            /\ \A j \in 1..Len(ls) :
                  is_heading(ls[j]) =>
                      /\ j = 1 \/ ls[j - 1] = <<>>
                      /\ j < Len(ls) /\ ls[j + 1] = <<>>

\* a blank line with both hints, a heading with a section hint, and a
\* text line that is in the section map and in the break set
C25_Witness ==
    /\ pc = "applied"
    /\ lines = <<L_blank, L_h, L_a>>
    /\ {hints.sections[k].line : k \in 1..Len(hints.sections)} = {1, 2, 3}
    /\ hints.paragraphs = {1, 3}
    /\ hints.title = <<>>
    /\ out = L_h \o <<NL, NL>> \o <<"#", "#", " ", "S", "3">>
                 \o <<NL, NL>> \o L_a \o <<NL>>

(***************************************************************************)
(* Claims about the marker from the segmenter to the link (SpecMarker)     *)
(***************************************************************************)
\* floor(s) of the start time of the word
FloorSeconds == Millis(words[1][1]) \div 1000

AllDigits(t) == t # <<>> /\ \A i \in 1..Len(t) : IsDigit(t[i])

\* the marker at the start of the transcript reads [M:SS] with M and SS as
\* the claim gives them
MarkerIsMSS ==
    LET colon == IndexFrom(md, ":", 1)
        close == IndexFrom(md, "]", 1)
        mm == SubSeq(md, 2, colon - 1)
        ss == SubSeq(md, colon + 1, close - 1)
    IN  /\ md[1] = "[" /\ colon > 2 /\ close = colon + 3
        /\ AllDigits(mm) /\ AllDigits(ss)
        /\ Len(mm) = 1 \/ mm[1] # "0"
        /\ StrToInt(mm) = FloorSeconds \div 60
        /\ StrToInt(ss) = FloorSeconds % 60

\* the t parameter of the URL at the start of the linkified transcript
LinkSeconds ==
    LET eq == IndexFrom(out, "=", 1)
        close == IndexFrom(out, ")", eq)
    IN  SubSeq(out, eq + 1, close - 1)

\* C26: for every start time, from one hour on too, the marker is M:SS with
\* M = floor(s) div 60 (60 or more when it has to be) and SS = floor(s) mod
\* 60 in two digits, and the link made from the marker has t = floor(s).
C26_MarkerRoundTrip ==
    /\ (pc \in {"linkify_timestamps", "linkified"} /\ words # <<>>) =>
           MarkerIsMSS
    /\ (pc = "linkified" /\ words # <<>>) =>
           LET url == <<"]", "(">> \o YoutuBe \o video_id[1] \o <<"?", "t", "=">>
               close == IndexFrom(md, "]", 1)
           IN  /\ SubSeq(out, close, close + Len(url) - 1) = url
               /\ AllDigits(LinkSeconds)
               /\ StrToInt(LinkSeconds) = FloorSeconds

\* a word at 1 h 1 min 1.5 s gets [61:01] and t=3661
C26_Witness ==
    /\ pc = "linkified"
    /\ words = << <<Seconds(3661500), W_Hi>> >>
    /\ video_id = Some(<<"v">>)
    /\ StartsWith(out, <<"[", "6", "1", ":", "0", "1", "]", "(">> \o YoutuBe
                          \o <<"v", "?", "t", "=", "3", "6", "6", "1", ")">>)

(***************************************************************************)
(* Claims about the while loop of fine_grain_segments (SpecSplit)          *)
(***************************************************************************)
\* C27: every iteration of the splitting loop strictly increases the start
\* offset, for every segment and every integer limit, so that the loop ends.
C27_EveryIterationAdvances ==
    [][(pc = "while" /\ pc' = "while") => split_start' > split_start]_vars

(***************************************************************************)
(* Claims about the paragraph breaks of words_to_sentences (SpecSeg)       *)
(***************************************************************************)
\* (None, "")
IsBreak(u) == u = <<None, <<>> >>

\* C28: the list words_to_sentences returns does not begin with a paragraph
\* break, does not end with one, and has no two of them next to each other.
C28_BreaksOnlyBetweenUnits ==
    pc = "segmented" =>
        /\ sentences # <<>> =>
              ~IsBreak(sentences[1]) /\ ~IsBreak(sentences[Len(sentences)])
        /\ \A i \in 1..(Len(sentences) - 1) :
              ~(IsBreak(sentences[i]) /\ IsBreak(sentences[i + 1]))

\* a long pause right after the end of a sentence, and a second one in the
\* middle of the next sentence
C28_Witness ==
    /\ pc = "segmented"
    /\ Len(words) = 3
    /\ words[1][2] = W_ok
    /\ LongGap(words, 2, pause_threshold)
    /\ LongGap(words, 3, pause_threshold)
    /\ Len(sentences) = 5
    /\ IsBreak(sentences[2]) /\ IsBreak(sentences[4])

(***************************************************************************)
(* Claims about the files of the apply_structure command (SpecApplyMain)   *)
(***************************************************************************)
\* the file the command writes to: the input file itself when in place
OutputFile == IF in_place THEN transcript_file ELSE final_file

RunsApplyMain == pc = "apply_structure_main" /\ pc' = "done"

FailsBeforeWrite ==
    transcript_file = None \/ apply_fails \in BeforeWriteFailures

\* C29: the input file is deleted only after the output has been written and
\* only when the two paths differ; a failure before the write exits
\* non-zero, writes nothing and leaves the input file; an in-place run keeps
\* the file it has written.
C29_InputDeletedOnlyAfterWrite ==
    [][RunsApplyMain =>
          /\ (transcript_file # None /\ transcript_file' = None) =>
                /\ ~in_place
                /\ final_file' = Some(out')
                /\ exit_code' = Some(0)
                /\ \E i, j \in (Len(stderr) + 1)..Len(stderr') :
                      /\ i < j
                      /\ stderr'[i] = "Wrote" /\ stderr'[j] = "Deleted"
          /\ FailsBeforeWrite =>
                /\ exit_code' # None /\ exit_code' # Some(0)
                /\ UNCHANGED <<transcript_file, final_file>>
          /\ (in_place /\ exit_code' = Some(0)) =>
                /\ transcript_file' = Some(out')
                /\ final_file' = final_file]_vars

\* an in-place run that wrote the file, after which the file is there
C29_Witness ==
    /\ pc = "done"
    /\ in_place
    /\ apply_fails = ""
    /\ exit_code = Some(0)
    /\ lines # <<>>
    /\ transcript_file = Some(out)
    /\ stderr = <<"Wrote">>

====
